---- MODULE Spec2Model ----
(***************************************************************************)
(* Control logic of the MOD Devices CS4245 / CS4265 codec drivers: the     *)
(* GPIO-driven board hardware (LM4811 headphone step amplifier, gain-stage *)
(* relays, true-bypass relays, CV / expression-pedal lines), the           *)
(* expression-pedal flag interrupt, and the clock table lookup.            *)
(***************************************************************************)
EXTENDS Integers, Sequences, FiniteSets, TLC

\* ------------------------------------------------------------------------
\* Program constants
\* ------------------------------------------------------------------------
CHANNEL_LEFT == 0
CHANNEL_RIGHT == 1
GPIO_BYPASS == 0
GPIO_PROCESS == 1
EXP_PEDAL_SIGNAL_ON_TIP == FALSE
EXP_PEDAL_SIGNAL_ON_RING == TRUE
\* number of clock pulses issued by the init loop
InitPulses == 16
\* headphone_info: value.integer.max
VolumeMax == 15
\* input_gain_stage_info: value.integer.max
GainMax == 3
EINVAL == 22
ENODEV == 19
ENOMEM == 12
\* error returned by a failed bus transfer or a refused register access
EIO == 5

\* codec registers and their fields (cs4245.h)
CS4245_CHIP_ID == 1
CS4245_CHIP_ID_VAL == 192
CS4245_CHIP_ID_MASK == 240
CS4245_INT_STATUS == 13
CS4245_MAX_REGISTER == 16
CS4245_DAC_CTL == 3
CS4245_DAC_CTL_MUTE == 4
CS4245_DAC_CTL_DIF == 48
CS4245_ADC_CTL == 4
CS4245_ADC_MASTER == 1
CS4245_ADC_CTL_MUTE == 4
CS4245_ADC_DIF == 16
CS4245_ADC_FM == 192
CS4245_MCLK_FREQ == 5
CS4245_MCLK_FREQ_MASK == 112
\* DAI format word (include/sound/soc-dai.h) and stream directions
SND_SOC_DAIFMT_I2S == 1
SND_SOC_DAIFMT_RIGHT_J == 2
SND_SOC_DAIFMT_LEFT_J == 3
SND_SOC_DAIFMT_FORMAT_MASK == 15
SND_SOC_DAIFMT_MASTER_MASK == 61440
SND_SOC_DAIFMT_CBM_CFM == 4096
SND_SOC_DAIFMT_CBS_CFS == 16384
SNDRV_PCM_STREAM_PLAYBACK == 0
SNDRV_PCM_STREAM_CAPTURE == 1

\* caller threads of the control surface
Threads == {"A", "B"}

\* ------------------------------------------------------------------------
\* Bounds of the model
\* ------------------------------------------------------------------------
\* the control surface may hand a put handler values this far outside the
\* range declared by the matching info callback
PutSlack == 1
\* largest volume written while the pins are not initialized
MaxLogicalVolume == 3
\* largest volume written by two threads at once
MaxRaceVolume == 2

\* ------------------------------------------------------------------------
\* Pins
\* ------------------------------------------------------------------------
AmpPins == {"headphone_clk", "headphone_dir"}
GainPins == {"gain_stage_left1", "gain_stage_left2",
             "gain_stage_right1", "gain_stage_right2"}
BypassPins == {"true_bypass_left", "true_bypass_right"}
ModePins == {"headphone_cv_mode", "exp_enable1", "exp_enable2"}
OutPins == AmpPins \cup GainPins \cup BypassPins \cup ModePins

VARIABLES
    attached,               \* "none", "duo" (cs4245) or "duox" (cs4265)
    acquired,               \* pins whose devm_gpiod_get succeeded
    initialized,            \* modduox_gpios->initialized
    irqFlag1, irqFlag2,     \* modduox_gpios->irqFlag1 / irqFlag2
    irq_registered,         \* sense lines with exp_flag_irq_handler installed
    level,                  \* electrical level of every output pin
    amp,                    \* step counter inside the LM4811 amplifier
    headphone_volume,
    input_left_gain_stage,
    input_right_gain_stage,
    left_true_bypass,
    right_true_bypass,
    headphone_cv_mode,
    cv_exp_pedal_mode,
    exp_pedal_mode,
    log,                    \* gpiod_set_value calls of the last operation
    last,                   \* the last operation, its argument, the old value
    ref,                    \* the mirrors of a device that saw the same calls
                            \* with initialized = true
    attach_bypass,          \* the bypass mirrors as they were at the last attach
    pcT,                    \* position of the control-surface thread inside
                            \* cv_exp_pedal_mode_put / exp_pedal_mode_put
    modeT,                  \* the mode argument of the call it is running
    pcI,                    \* position of exp_flag_irq_handler
    irq_since_call,         \* the handler has started, and no explicit call
                            \* has started since
    clk_query,              \* (mclk, rate) of the last clock lookup
    clk_result,             \* <<>> before any lookup, then <<value returned>>
    sysclk,                 \* cs4245_private.sysclk
    format,                 \* cs4245_private.format
    regs,                   \* codec registers written by the DAI operations
    dai,                    \* the last DAI operation: arguments, state before, return value, register updates
    clk_failed,             \* a set_sysclk call failed and none has succeeded with a frequency since
    bus_failed,             \* a bus transfer of the last codec operation failed
    th,                     \* per caller thread: position in headphone_put and its locals
    rm                      \* the register map: cache, chip registers, last access

gpioVars == <<attached, acquired, initialized, irqFlag1, irqFlag2, irq_registered>>
hwVars == <<level, amp>>
ampVars == <<headphone_volume>>
gainVars == <<input_left_gain_stage, input_right_gain_stage>>
bypassVars == <<left_true_bypass, right_true_bypass>>
modeVars == <<headphone_cv_mode, cv_exp_pedal_mode, exp_pedal_mode>>
mirrorVars == <<ampVars, gainVars, bypassVars, modeVars>>
raceVars == <<pcT, modeT, pcI, irq_since_call, th>>
daiVars == <<sysclk, format, regs, dai, clk_failed, bus_failed>>
clkVars == <<clk_query, clk_result, daiVars, rm>>
vars == <<gpioVars, hwVars, mirrorVars, log, last, ref, attach_bypass, raceVars, clkVars>>

\* the static mirror variables as one record
Mirror ==
    [headphone_volume |-> headphone_volume,
     input_left_gain_stage |-> input_left_gain_stage,
     input_right_gain_stage |-> input_right_gain_stage,
     left_true_bypass |-> left_true_bypass,
     right_true_bypass |-> right_true_bypass,
     headphone_cv_mode |-> headphone_cv_mode,
     cv_exp_pedal_mode |-> cv_exp_pedal_mode,
     exp_pedal_mode |-> exp_pedal_mode]

\* the fields of *modduox_gpios that the setters read
Gpios == [initialized |-> initialized, irqFlag1 |-> irqFlag1, irqFlag2 |-> irqFlag2]

\* ------------------------------------------------------------------------
\* Helpers
\* ------------------------------------------------------------------------
abs(x) == IF x < 0 THEN -x ELSE x

\* one gpiod_set_value(pin, val) call
W(pin, val) == [pin |-> pin, val |-> val]

\* C conversion of an integer to bool
ToBool(x) == x # 0

\* C conversion of a bool to int
ToInt(b) == IF b THEN 1 ELSE 0

\* The LM4811 samples the direction pin on a rising clock edge and moves one
\* step, saturating at both ends of its 16 positions.
AmpStep(a, dir) ==
    IF dir = 1
    THEN (IF a < VolumeMax THEN a + 1 ELSE a)
    ELSE (IF a > 0 THEN a - 1 ELSE a)

\* gpiod_set_value on the hardware: a descriptor that was not acquired is
\* rejected by gpiolib and changes nothing.
SetValue(hw, acq, w) ==
    IF w.pin \notin acq
    THEN hw
    ELSE [level |-> [hw.level EXCEPT ![w.pin] = w.val],
          amp |-> IF w.pin = "headphone_clk" /\ hw.level["headphone_clk"] = 0 /\ w.val = 1
                  THEN AmpStep(hw.amp, hw.level["headphone_dir"])
                  ELSE hw.amp]

\* the hardware after the calls ws[lo..hi], issued in order (the left half is
\* evaluated before the right half is started on its result)
RECURSIVE ApplyRange(_, _, _, _, _)
ApplyRange(hw, acq, ws, lo, hi) ==
    IF lo > hi THEN hw
    ELSE IF lo = hi THEN SetValue(hw, acq, ws[lo])
    ELSE CHOOSE r \in UNION {{ApplyRange(h, acq, ws, mid + 1, hi) :
                                 h \in {ApplyRange(hw, acq, ws, lo, mid)}} :
                              mid \in {(lo + hi) \div 2}} : TRUE

Apply(hw, acq, ws) ==
    CHOOSE r \in {ApplyRange(h, a, w, 1, Len(w)) :
                     h \in {hw}, a \in {acq}, w \in {ws}} : TRUE

\* the body of the clock loop, run n times
RECURSIVE Pulses(_)
Pulses(n) ==
    IF n <= 0 THEN <<>>
    ELSE <<W("headphone_clk", 1), W("headphone_clk", 0)>> \o Pulses(n - 1)

\* ------------------------------------------------------------------------
\* Attach: pin acquisition and board initialisation
\* ------------------------------------------------------------------------
\* devm_gpiod_get calls of modduo_init, in order, with their initial levels
DuoAcquire ==
    <<W("headphone_clk", 1), W("headphone_dir", 1),
      W("gain_stage_left1", 1), W("gain_stage_left2", 1),
      W("gain_stage_right1", 1), W("gain_stage_right2", 1),
      W("true_bypass_left", 0), W("true_bypass_right", 0)>>

\* devm_gpiod_get calls of moddevices_init, in order, with their initial levels
DuoXAcquire ==
    <<W("headphone_clk", 1), W("headphone_dir", 1),
      W("gain_stage_left1", 1), W("gain_stage_left2", 1),
      W("gain_stage_right1", 1), W("gain_stage_right2", 1),
      W("headphone_cv_mode", 1), W("exp_enable1", 1), W("exp_enable2", 1),
      W("true_bypass_left", 0), W("true_bypass_right", 0)>>

PinsOf(ws) == {ws[i].pin : i \in 1..Len(ws)}

\* which devm_gpiod_get calls fail on an attach
AcquireFailures == {{}, {"gain_stage_left1"}, {"headphone_clk"}}

\* variant of InitVolumeWrites whose loop stops one iteration early
InitVolumeWrites_short == <<W("headphone_dir", 0)>> \o Pulses(InitPulses - 1)

\* "put headphone volume to lowest setting": direction low, then the clock loop
InitVolumeWrites == <<W("headphone_dir", 0)>> \o Pulses(InitPulses)

InitGainWrites ==
    <<W("gain_stage_left1", 1), W("gain_stage_left2", 1),
      W("gain_stage_right1", 1), W("gain_stage_right2", 1)>>

InitModeWrites(hcv) ==
    <<W("headphone_cv_mode", ToInt(hcv)), W("exp_enable1", 0), W("exp_enable2", 0)>>

\* cs4245: modduo_init, on every variable but those of the codec
modduo_init_body(fail) ==
    /\ attached = "none"
    /\ LET acq == PinsOf(DuoAcquire) \ fail
           hw0 == Apply([level |-> level, amp |-> amp], acq, DuoAcquire)
           ws == InitVolumeWrites \o InitGainWrites
           hw1 == Apply(hw0, acq, ws)
       IN /\ attached' = "duo"
          /\ acquired' = acq
          /\ IF "headphone_clk" \notin acq
             THEN /\ initialized' = FALSE
                  /\ level' = hw0.level /\ amp' = hw0.amp
                  /\ log' = <<>>
             ELSE /\ initialized' = TRUE
                  /\ level' = hw1.level /\ amp' = hw1.amp
                  /\ log' = ws
    /\ irqFlag1' = 0 /\ irqFlag2' = 0
    /\ last' = [op |-> "modduo_init", arg |-> 0, old |-> amp, ret |-> 0]
    /\ attach_bypass' = [left |-> left_true_bypass, right |-> right_true_bypass]
    /\ UNCHANGED <<irq_registered, mirrorVars, ref, raceVars>>

\* cs4245: modduo_init
modduo_init(fail) == modduo_init_body(fail) /\ UNCHANGED clkVars

\* request_irq on a sense line: fails when the environment refuses it or the
\* line still has the handler of an earlier attach installed
RequestOk(line, grant, registered) == grant /\ line \notin registered

\* cs4265: moddevices_init
\* fail: acquisitions that fail; q1, q2: gpiod_to_irq succeeds;
\* r1, r2: the environment grants request_irq
moddevices_init(fail, q1, q2, r1, r2) ==
    /\ attached = "none"
    /\ LET acq == PinsOf(DuoXAcquire) \ fail
           hw0 == Apply([level |-> level, amp |-> amp], acq, DuoXAcquire)
           ws == InitVolumeWrites \o InitModeWrites(headphone_cv_mode) \o InitGainWrites
           hw1 == Apply(hw0, acq, ws)
           f1 == IF q1 THEN 1 ELSE -EINVAL
           f2 == IF q2 THEN 2 ELSE -EINVAL
           ok1 == RequestOk(1, r1, irq_registered)
           ok2 == RequestOk(2, r2, irq_registered)
       IN /\ attached' = "duox"
          /\ acquired' = acq
          /\ IF "gain_stage_left1" \notin acq
             THEN /\ initialized' = FALSE
                  /\ level' = hw0.level /\ amp' = hw0.amp
                  /\ log' = <<>>
                  /\ irqFlag1' = 0 /\ irqFlag2' = 0
                  /\ UNCHANGED irq_registered
             ELSE /\ initialized' = TRUE
                  /\ level' = hw1.level /\ amp' = hw1.amp
                  /\ log' = ws
                  /\ IF f1 > 0 /\ f2 > 0
                     THEN /\ irq_registered' = irq_registered
                                 \cup (IF ok1 THEN {1} ELSE {})
                                 \cup (IF ok1 /\ ok2 THEN {2} ELSE {})
                          /\ irqFlag1' = IF ok1 /\ ok2 THEN f1 ELSE 0
                          /\ irqFlag2' = IF ok1 /\ ok2 THEN f2 ELSE 0
                     ELSE /\ irqFlag1' = f1 /\ irqFlag2' = f2
                          /\ UNCHANGED irq_registered
    /\ last' = [op |-> "moddevices_init", arg |-> 0, old |-> amp, ret |-> 0]
    /\ attach_bypass' = [left |-> left_true_bypass, right |-> right_true_bypass]
    /\ UNCHANGED <<mirrorVars, ref, raceVars, clkVars>>

\* Unbinding the driver: the devm-managed descriptor block and pins are
\* released, the pins keep their levels, the static mirrors keep their
\* values, and no free_irq is issued.
detach ==
    /\ attached # "none"
    /\ attached' = "none"
    /\ acquired' = {}
    /\ initialized' = FALSE
    /\ irqFlag1' = 0 /\ irqFlag2' = 0
    /\ log' = <<>>
    /\ last' = [op |-> "detach", arg |-> 0, old |-> 0, ret |-> 0]
    /\ UNCHANGED <<irq_registered, hwVars, mirrorVars, ref, attach_bypass, raceVars, clkVars>>

\* ------------------------------------------------------------------------
\* Setters.  Each takes the mirrors m and the descriptor block g and yields
\* the gpiod_set_value calls it issues, in order, and the mirrors it leaves.
\* ------------------------------------------------------------------------
\* variant of set_headphone_volume that takes the step count without abs()
set_headphone_volume_noabs(new_volume, m, g) ==
    [writes |-> IF g.initialized
                THEN <<W("headphone_dir", IF new_volume > m.headphone_volume THEN 1 ELSE 0)>>
                     \o Pulses(new_volume - m.headphone_volume)
                ELSE <<>>,
     m |-> [m EXCEPT !.headphone_volume = new_volume]]

\* variant of set_headphone_volume that records the volume only when the
\* pins were initialized
set_headphone_volume_guarded(new_volume, m, g) ==
    [writes |-> IF g.initialized
                THEN <<W("headphone_dir", IF new_volume > m.headphone_volume THEN 1 ELSE 0)>>
                     \o Pulses(abs(new_volume - m.headphone_volume))
                ELSE <<>>,
     m |-> IF g.initialized THEN [m EXCEPT !.headphone_volume = new_volume] ELSE m]

set_headphone_volume(new_volume, m, g) ==
    [writes |-> IF g.initialized
                THEN <<W("headphone_dir", IF new_volume > m.headphone_volume THEN 1 ELSE 0)>>
                     \o Pulses(abs(new_volume - m.headphone_volume))
                ELSE <<>>,
     m |-> [m EXCEPT !.headphone_volume = new_volume]]

\* the switch (state) of set_gain_stage on the two pins of one channel
GainPattern(gpio1, gpio2, state) ==
    CASE state = 0 -> <<W(gpio1, 1), W(gpio2, 1)>>
      [] state = 1 -> <<W(gpio1, 1), W(gpio2, 0)>>
      [] state = 2 -> <<W(gpio1, 0), W(gpio2, 1)>>
      [] state = 3 -> <<W(gpio1, 0), W(gpio2, 0)>>
      [] OTHER -> <<>>

\* variant of set_gain_stage with the patterns of levels 1 and 2 exchanged
set_gain_stage_swapped(channel, state, m, g) ==
    LET st == IF state = 1 THEN 2 ELSE IF state = 2 THEN 1 ELSE state
    IN IF channel = CHANNEL_LEFT
       THEN [writes |-> IF g.initialized
                        THEN GainPattern("gain_stage_left1", "gain_stage_left2", st)
                        ELSE <<>>,
             m |-> [m EXCEPT !.input_left_gain_stage = state]]
       ELSE IF channel = CHANNEL_RIGHT
       THEN [writes |-> IF g.initialized
                        THEN GainPattern("gain_stage_right1", "gain_stage_right2", st)
                        ELSE <<>>,
             m |-> [m EXCEPT !.input_right_gain_stage = state]]
       ELSE [writes |-> <<>>, m |-> m]

set_gain_stage(channel, state, m, g) ==
    IF channel = CHANNEL_LEFT
    THEN [writes |-> IF g.initialized
                     THEN GainPattern("gain_stage_left1", "gain_stage_left2", state)
                     ELSE <<>>,
          m |-> [m EXCEPT !.input_left_gain_stage = state]]
    ELSE IF channel = CHANNEL_RIGHT
    THEN [writes |-> IF g.initialized
                     THEN GainPattern("gain_stage_right1", "gain_stage_right2", state)
                     ELSE <<>>,
          m |-> [m EXCEPT !.input_right_gain_stage = state]]
    ELSE [writes |-> <<>>, m |-> m]

\* variant of set_true_bypass whose left case also switches the right relay
set_true_bypass_both(channel, state, m, g) ==
    IF channel = CHANNEL_LEFT
    THEN [writes |-> IF g.initialized
                     THEN <<W("true_bypass_left", IF state THEN GPIO_BYPASS ELSE GPIO_PROCESS),
                            W("true_bypass_right", IF state THEN GPIO_BYPASS ELSE GPIO_PROCESS)>>
                     ELSE <<>>,
          m |-> [m EXCEPT !.left_true_bypass = state]]
    ELSE IF channel = CHANNEL_RIGHT
    THEN [writes |-> IF g.initialized
                     THEN <<W("true_bypass_right", IF state THEN GPIO_BYPASS ELSE GPIO_PROCESS)>>
                     ELSE <<>>,
          m |-> [m EXCEPT !.right_true_bypass = state]]
    ELSE [writes |-> <<>>, m |-> m]

\* variant of set_true_bypass that drives the pin without the inversion
set_true_bypass_direct(channel, state, m, g) ==
    IF channel = CHANNEL_LEFT
    THEN [writes |-> IF g.initialized
                     THEN <<W("true_bypass_left", IF state THEN GPIO_PROCESS ELSE GPIO_BYPASS)>>
                     ELSE <<>>,
          m |-> [m EXCEPT !.left_true_bypass = state]]
    ELSE IF channel = CHANNEL_RIGHT
    THEN [writes |-> IF g.initialized
                     THEN <<W("true_bypass_right", IF state THEN GPIO_PROCESS ELSE GPIO_BYPASS)>>
                     ELSE <<>>,
          m |-> [m EXCEPT !.right_true_bypass = state]]
    ELSE [writes |-> <<>>, m |-> m]

set_true_bypass(channel, state, m, g) ==
    IF channel = CHANNEL_LEFT
    THEN [writes |-> IF g.initialized
                     THEN <<W("true_bypass_left", IF state THEN GPIO_BYPASS ELSE GPIO_PROCESS)>>
                     ELSE <<>>,
          m |-> [m EXCEPT !.left_true_bypass = state]]
    ELSE IF channel = CHANNEL_RIGHT
    THEN [writes |-> IF g.initialized
                     THEN <<W("true_bypass_right", IF state THEN GPIO_BYPASS ELSE GPIO_PROCESS)>>
                     ELSE <<>>,
          m |-> [m EXCEPT !.right_true_bypass = state]]
    ELSE [writes |-> <<>>, m |-> m]

\* variant that drives the pin with the inverted value
set_headphone_cv_mode_inverted(mode, m, g) ==
    IF mode = 0 \/ mode = 1
    THEN [writes |-> IF g.initialized THEN <<W("headphone_cv_mode", 1 - mode)>> ELSE <<>>,
          m |-> [m EXCEPT !.headphone_cv_mode = (mode # 0)]]
    ELSE [writes |-> <<>>, m |-> m]

set_headphone_cv_mode(mode, m, g) ==
    IF mode = 0 \/ mode = 1
    THEN [writes |-> IF g.initialized THEN <<W("headphone_cv_mode", mode)>> ELSE <<>>,
          m |-> [m EXCEPT !.headphone_cv_mode = (mode # 0)]]
    ELSE [writes |-> <<>>, m |-> m]

\* variant with the tip and ring branches exchanged
set_exp_pedal_mode_swapped(mode, m, g) ==
    IF mode = 0 \/ mode = 1
    THEN [writes |->
            IF m.cv_exp_pedal_mode /\ g.initialized
            THEN IF g.irqFlag1 <= 0 \/ g.irqFlag2 <= 0
                 THEN <<>>
                 ELSE IF mode = ToInt(EXP_PEDAL_SIGNAL_ON_TIP)
                 THEN <<W("exp_enable2", 0), W("exp_enable1", 1)>>
                 ELSE <<W("exp_enable1", 0), W("exp_enable2", 1)>>
            ELSE <<>>,
          m |-> [m EXCEPT !.exp_pedal_mode = (mode # 0)]]
    ELSE [writes |-> <<>>, m |-> m]

\* variant that does not test the two irq flags
set_exp_pedal_mode_noirqtest(mode, m, g) ==
    IF mode = 0 \/ mode = 1
    THEN [writes |->
            IF m.cv_exp_pedal_mode /\ g.initialized
            THEN IF mode = ToInt(EXP_PEDAL_SIGNAL_ON_TIP)
                 THEN <<W("exp_enable1", 0), W("exp_enable2", 1)>>
                 ELSE <<W("exp_enable2", 0), W("exp_enable1", 1)>>
            ELSE <<>>,
          m |-> [m EXCEPT !.exp_pedal_mode = (mode # 0)]]
    ELSE [writes |-> <<>>, m |-> m]

\* variant that does not test cv_exp_pedal_mode
set_exp_pedal_mode_anymode(mode, m, g) ==
    IF mode = 0 \/ mode = 1
    THEN [writes |->
            IF g.initialized
            THEN IF g.irqFlag1 <= 0 \/ g.irqFlag2 <= 0
                 THEN <<>>
                 ELSE IF mode = ToInt(EXP_PEDAL_SIGNAL_ON_TIP)
                 THEN <<W("exp_enable1", 0), W("exp_enable2", 1)>>
                 ELSE <<W("exp_enable2", 0), W("exp_enable1", 1)>>
            ELSE <<>>,
          m |-> [m EXCEPT !.exp_pedal_mode = (mode # 0)]]
    ELSE [writes |-> <<>>, m |-> m]

set_exp_pedal_mode(mode, m, g) ==
    IF mode = 0 \/ mode = 1
    THEN [writes |->
            IF m.cv_exp_pedal_mode /\ g.initialized
            THEN IF g.irqFlag1 <= 0 \/ g.irqFlag2 <= 0
                 THEN <<>>
                 ELSE IF mode = ToInt(EXP_PEDAL_SIGNAL_ON_TIP)
                 THEN <<W("exp_enable1", 0), W("exp_enable2", 1)>>
                 ELSE <<W("exp_enable2", 0), W("exp_enable1", 1)>>
            ELSE <<>>,
          m |-> [m EXCEPT !.exp_pedal_mode = (mode # 0)]]
    ELSE [writes |-> <<>>, m |-> m]

\* variant whose case 0 releases exp_enable1 only
set_cv_exp_pedal_mode_oneline(mode, m, g) ==
    IF mode = 0
    THEN [writes |-> IF g.initialized THEN <<W("exp_enable1", 0)>> ELSE <<>>,
          m |-> [m EXCEPT !.cv_exp_pedal_mode = FALSE]]
    ELSE IF mode = 1
    THEN set_exp_pedal_mode(ToInt(m.exp_pedal_mode),
                            [m EXCEPT !.cv_exp_pedal_mode = TRUE], g)
    ELSE [writes |-> <<>>, m |-> m]

set_cv_exp_pedal_mode(mode, m, g) ==
    IF mode = 0
    THEN [writes |-> IF g.initialized
                     THEN <<W("exp_enable1", 0), W("exp_enable2", 0)>>
                     ELSE <<>>,
          m |-> [m EXCEPT !.cv_exp_pedal_mode = FALSE]]
    ELSE IF mode = 1
    THEN set_exp_pedal_mode(ToInt(m.exp_pedal_mode),
                            [m EXCEPT !.cv_exp_pedal_mode = TRUE], g)
    ELSE [writes |-> <<>>, m |-> m]

\* ------------------------------------------------------------------------
\* Control put handlers: the comparison with the mirror, the setter call and
\* the returned "changed" flag
\* ------------------------------------------------------------------------
Unchanged(m) == [ret |-> 0, writes |-> <<>>, m |-> m]

Changed(r) == [ret |-> 1, writes |-> r.writes, m |-> r.m]

headphone_put_call(value, m, g) ==
    IF m.headphone_volume # value
    THEN Changed(set_headphone_volume(value, m, g))
    ELSE Unchanged(m)

input_left_gain_stage_put_call(value, m, g) ==
    IF m.input_left_gain_stage # value
    THEN Changed(set_gain_stage(CHANNEL_LEFT, value, m, g))
    ELSE Unchanged(m)

input_right_gain_stage_put_call(value, m, g) ==
    IF m.input_right_gain_stage # value
    THEN Changed(set_gain_stage(CHANNEL_RIGHT, value, m, g))
    ELSE Unchanged(m)

left_true_bypass_put_call(value, m, g) ==
    IF ToInt(m.left_true_bypass) # value
    THEN Changed(set_true_bypass(CHANNEL_LEFT, ToBool(value), m, g))
    ELSE Unchanged(m)

right_true_bypass_put_call(value, m, g) ==
    IF ToInt(m.right_true_bypass) # value
    THEN Changed(set_true_bypass(CHANNEL_RIGHT, ToBool(value), m, g))
    ELSE Unchanged(m)

headphone_cv_mode_put_call(value, m, g) ==
    IF ToInt(m.headphone_cv_mode) # value
    THEN Changed(set_headphone_cv_mode(value, m, g))
    ELSE Unchanged(m)

cv_exp_pedal_mode_put_call(value, m, g) ==
    IF ToInt(m.cv_exp_pedal_mode) # value
    THEN Changed(set_cv_exp_pedal_mode(value, m, g))
    ELSE Unchanged(m)

exp_pedal_mode_put_call(value, m, g) ==
    IF ToInt(m.exp_pedal_mode) # value
    THEN Changed(set_exp_pedal_mode(value, m, g))
    ELSE Unchanged(m)

\* the same descriptor block with the pins initialized
RefGpios == [Gpios EXCEPT !.initialized = TRUE]

\* The effect of one handler run: r is its result on the device, rr its
\* result on the reference device.
Commit(r, rr) ==
    /\ headphone_volume' = r.m.headphone_volume
    /\ input_left_gain_stage' = r.m.input_left_gain_stage
    /\ input_right_gain_stage' = r.m.input_right_gain_stage
    /\ left_true_bypass' = r.m.left_true_bypass
    /\ right_true_bypass' = r.m.right_true_bypass
    /\ headphone_cv_mode' = r.m.headphone_cv_mode
    /\ cv_exp_pedal_mode' = r.m.cv_exp_pedal_mode
    /\ exp_pedal_mode' = r.m.exp_pedal_mode
    /\ \E hw \in {Apply([level |-> level, amp |-> amp], acquired, r.writes)} :
          level' = hw.level /\ amp' = hw.amp
    /\ log' = r.writes
    /\ ref' = rr.m
    /\ UNCHANGED <<gpioVars, attach_bypass, raceVars, clkVars>>

headphone_put(value) ==
    /\ attached # "none"
    /\ Commit(headphone_put_call(value, Mirror, Gpios),
              headphone_put_call(value, ref, RefGpios))
    /\ last' = [op |-> "headphone_put", arg |-> value, old |-> headphone_volume,
                ret |-> headphone_put_call(value, Mirror, Gpios).ret]

input_left_gain_stage_put(value) ==
    /\ attached # "none"
    /\ Commit(input_left_gain_stage_put_call(value, Mirror, Gpios),
              input_left_gain_stage_put_call(value, ref, RefGpios))
    /\ last' = [op |-> "input_left_gain_stage_put", arg |-> value,
                old |-> input_left_gain_stage,
                ret |-> input_left_gain_stage_put_call(value, Mirror, Gpios).ret]

input_right_gain_stage_put(value) ==
    /\ attached # "none"
    /\ Commit(input_right_gain_stage_put_call(value, Mirror, Gpios),
              input_right_gain_stage_put_call(value, ref, RefGpios))
    /\ last' = [op |-> "input_right_gain_stage_put", arg |-> value,
                old |-> input_right_gain_stage,
                ret |-> input_right_gain_stage_put_call(value, Mirror, Gpios).ret]

left_true_bypass_put(value) ==
    /\ attached # "none"
    /\ Commit(left_true_bypass_put_call(value, Mirror, Gpios),
              left_true_bypass_put_call(value, ref, RefGpios))
    /\ last' = [op |-> "left_true_bypass_put", arg |-> value,
                old |-> ToInt(left_true_bypass),
                ret |-> left_true_bypass_put_call(value, Mirror, Gpios).ret]

right_true_bypass_put(value) ==
    /\ attached # "none"
    /\ Commit(right_true_bypass_put_call(value, Mirror, Gpios),
              right_true_bypass_put_call(value, ref, RefGpios))
    /\ last' = [op |-> "right_true_bypass_put", arg |-> value,
                old |-> ToInt(right_true_bypass),
                ret |-> right_true_bypass_put_call(value, Mirror, Gpios).ret]

headphone_cv_mode_put(value) ==
    /\ attached = "duox"
    /\ Commit(headphone_cv_mode_put_call(value, Mirror, Gpios),
              headphone_cv_mode_put_call(value, ref, RefGpios))
    /\ last' = [op |-> "headphone_cv_mode_put", arg |-> value,
                old |-> ToInt(headphone_cv_mode),
                ret |-> headphone_cv_mode_put_call(value, Mirror, Gpios).ret]

cv_exp_pedal_mode_put(value) ==
    /\ attached = "duox"
    /\ Commit(cv_exp_pedal_mode_put_call(value, Mirror, Gpios),
              cv_exp_pedal_mode_put_call(value, ref, RefGpios))
    /\ last' = [op |-> "cv_exp_pedal_mode_put", arg |-> value,
                old |-> ToInt(cv_exp_pedal_mode),
                ret |-> cv_exp_pedal_mode_put_call(value, Mirror, Gpios).ret]

exp_pedal_mode_put(value) ==
    /\ attached = "duox"
    /\ Commit(exp_pedal_mode_put_call(value, Mirror, Gpios),
              exp_pedal_mode_put_call(value, ref, RefGpios))
    /\ last' = [op |-> "exp_pedal_mode_put", arg |-> value,
                old |-> ToInt(exp_pedal_mode),
                ret |-> exp_pedal_mode_put_call(value, Mirror, Gpios).ret]

\* The sense-line interrupt, run to completion: set_cv_exp_pedal_mode(0).
exp_flag_irq_handler ==
    /\ attached = "duox"
    /\ irq_registered # {}
    /\ Commit(Changed(set_cv_exp_pedal_mode(0, Mirror, Gpios)),
              Changed(set_cv_exp_pedal_mode(0, ref, RefGpios)))
    /\ last' = [op |-> "exp_flag_irq_handler", arg |-> 0,
                old |-> ToInt(cv_exp_pedal_mode), ret |-> 0]

\* ------------------------------------------------------------------------
\* Register map: the driver's predicates and the cached access they configure
\* ------------------------------------------------------------------------
cs4245_readable_register(reg) == reg \in CS4245_CHIP_ID..CS4245_MAX_REGISTER

\* variant that marks no register volatile
cs4245_volatile_register_none(reg) == FALSE

cs4245_volatile_register(reg) == reg = CS4245_INT_STATUS

\* addresses accessed: below the readable range, the identifier register, a
\* control register, the interrupt status register and one above the last
RegAddrs ==
    {0, CS4245_CHIP_ID, CS4245_DAC_CTL, CS4245_INT_STATUS, CS4245_MAX_REGISTER + 1}

RegValues == {1, CS4245_CHIP_ID_VAL}

\* the cache after regmap init: cs4245_reg_defaults for the control register,
\* nothing for the identifier register (NoValue)
NoValue == -1

RegDefaults ==
    [reg \in RegAddrs |-> IF reg = CS4245_DAC_CTL THEN 8
                          ELSE IF reg = CS4245_INT_STATUS THEN 0
                          ELSE NoValue]

\* what the chip holds after reset
ChipReset ==
    [reg \in RegAddrs |-> IF reg = CS4245_CHIP_ID THEN CS4245_CHIP_ID_VAL
                          ELSE IF reg = CS4245_DAC_CTL THEN 8 ELSE 0]

\* write(addr, value): refused above max_register; the cache is updated and
\* one bus transfer is made, which may fail; the identifier register of the
\* chip is read-only
regmap_write(r, reg, val, busok) ==
    IF reg > CS4245_MAX_REGISTER
    THEN [r EXCEPT !.last = [op |-> "write", reg |-> reg, val |-> val, ret |-> -EIO, bus |-> 0],
                   !.written = <<>>]
    ELSE [cache |-> [r.cache EXCEPT ![reg] = val],
          chip |-> IF busok /\ reg # CS4245_CHIP_ID /\ reg # 0
                   THEN [r.chip EXCEPT ![reg] = val] ELSE r.chip,
          last |-> [op |-> "write", reg |-> reg, val |-> val,
                    ret |-> IF busok THEN 0 ELSE -EIO, bus |-> 1],
          written |-> IF busok THEN <<[reg |-> reg, val |-> val]>> ELSE <<>>]

\* read(addr): refused for a register that is not readable; a register that
\* is not volatile is served from the cache when it is there; otherwise one
\* bus transfer is made, which may fail, and fills the cache. hw is what
\* the interrupt status register holds at that moment.
regmap_read(r, reg, busok, hw) ==
    IF ~cs4245_readable_register(reg)
    THEN [r EXCEPT !.last = [op |-> "read", reg |-> reg, val |-> 0, ret |-> -EIO, bus |-> 0]]
    ELSE IF ~cs4245_volatile_register(reg) /\ r.cache[reg] # NoValue
    THEN [r EXCEPT !.last = [op |-> "read", reg |-> reg, val |-> r.cache[reg],
                             ret |-> 0, bus |-> 0]]
    ELSE IF ~busok
    THEN [r EXCEPT !.last = [op |-> "read", reg |-> reg, val |-> 0, ret |-> -EIO, bus |-> 1]]
    ELSE LET v == IF reg = CS4245_INT_STATUS THEN hw ELSE r.chip[reg]
         IN [r EXCEPT !.cache[reg] = IF cs4245_volatile_register(reg) THEN @ ELSE v,
                      !.last = [op |-> "read", reg |-> reg, val |-> v, ret |-> 0, bus |-> 1]]

\* the register values left by the probe-time setup
ProbeRegs ==
    [reg \in {CS4245_DAC_CTL, CS4245_ADC_CTL, CS4245_MCLK_FREQ} |->
        IF reg = CS4245_DAC_CTL THEN 8 + CS4245_DAC_CTL_MUTE
        ELSE IF reg = CS4245_ADC_CTL THEN CS4245_ADC_CTL_MUTE
        ELSE 0]

\* ------------------------------------------------------------------------
\* Initial states
\* ------------------------------------------------------------------------
\* Before the first attach: the static mirrors hold their initialisers, the
\* amplifier is at one of the steps amps and its two lines at levels lines.
InitWith(amps, lines) ==
    /\ attached = "none"
    /\ acquired = {}
    /\ initialized = FALSE
    /\ irqFlag1 = 0 /\ irqFlag2 = 0
    /\ irq_registered = {}
    /\ \E c \in lines, d \in lines :
          level = [p \in OutPins |-> IF p = "headphone_clk" THEN c
                                     ELSE IF p = "headphone_dir" THEN d ELSE 0]
    /\ amp \in amps
    /\ headphone_volume = 0
    /\ input_left_gain_stage = 0
    /\ input_right_gain_stage = 0
    /\ left_true_bypass = TRUE
    /\ right_true_bypass = TRUE
    /\ headphone_cv_mode = FALSE
    /\ cv_exp_pedal_mode = FALSE
    /\ exp_pedal_mode = EXP_PEDAL_SIGNAL_ON_TIP
    /\ log = <<>>
    /\ last = [op |-> "none", arg |-> 0, old |-> 0, ret |-> 0]
    /\ ref = Mirror
    /\ attach_bypass = [left |-> TRUE, right |-> TRUE]
    /\ pcT = "idle" /\ modeT = 0 /\ pcI = "idle"
    /\ irq_since_call = FALSE
    /\ th = [t \in Threads |-> [pc |-> "idle", new_volume |-> 0, steps |-> 0, i |-> 0]]
    /\ clk_query = [mclk |-> 0, rate |-> 0]
    /\ clk_result = <<>>
    /\ sysclk = 0
    /\ format = 0
    /\ regs = ProbeRegs
    /\ dai = [op |-> "none", a1 |-> 0, a2 |-> 0, a3 |-> 0, ret |-> 0,
              sysclk0 |-> 0, format0 |-> 0, writes |-> <<>>]
    /\ clk_failed = FALSE
    /\ bus_failed = FALSE
    /\ rm = [cache |-> RegDefaults, chip |-> ChipReset,
             last |-> [op |-> "none", reg |-> 0, val |-> 0, ret |-> 0, bus |-> 0],
             written |-> <<>>]

\* the amplifier at an unknown step, its lines at unknown levels
InitBoard == InitWith(0..VolumeMax, 0..1)

\* the amplifier at rest at step 0
InitQuiet == InitWith({0}, {0})

\* ------------------------------------------------------------------------
\* Inputs
\* ------------------------------------------------------------------------
\* values inside the range the info callback declares
VolumeValues == 0..VolumeMax

GainValues == 0..GainMax

\* values the control surface may pass without checking them
GainInputs == (0 - PutSlack)..(GainMax + PutSlack)

BoolInputs == 0..(1 + PutSlack)

AttachDuo == \E fail \in AcquireFailures : modduo_init(fail)

AttachDuoX == \E fail \in AcquireFailures : moddevices_init(fail, TRUE, TRUE, TRUE, TRUE)

\* attaches on which every pin is acquired and both sense-line interrupts
\* are available
AttachDuoOk == modduo_init({})

AttachDuoXOk == moddevices_init({}, TRUE, TRUE, TRUE, TRUE)

HeadphonePut == \E v \in VolumeValues : headphone_put(v)

GainStagePut ==
    \E v \in GainInputs :
        \/ input_left_gain_stage_put(v)
        \/ input_right_gain_stage_put(v)

TrueBypassPut ==
    \E v \in BoolInputs :
        \/ left_true_bypass_put(v)
        \/ right_true_bypass_put(v)

HeadphoneCvModePut == \E v \in BoolInputs : headphone_cv_mode_put(v)

\* ------------------------------------------------------------------------
\* The step amplifier alone: attach, detach and volume changes
\* ------------------------------------------------------------------------
NextAmp ==
    \/ AttachDuoOk
    \/ AttachDuoXOk
    \/ detach
    \/ HeadphonePut

SpecAmp == InitBoard /\ [][NextAmp]_vars

\* ------------------------------------------------------------------------
\* The gain-stage encoder alone
\* ------------------------------------------------------------------------
NextGain ==
    \/ AttachDuo
    \/ AttachDuoX
    \/ detach
    \/ GainStagePut

SpecGain == InitQuiet /\ [][NextGain]_vars

\* ------------------------------------------------------------------------
\* The true-bypass relays and the headphone/CV switch
\* ------------------------------------------------------------------------
NextSwitch ==
    \/ AttachDuo
    \/ AttachDuoX
    \/ detach
    \/ TrueBypassPut
    \/ HeadphoneCvModePut

SpecSwitch == InitQuiet /\ [][NextSwitch]_vars

\* ------------------------------------------------------------------------
\* The two channel setters called directly, with any channel argument
\* ------------------------------------------------------------------------
ChannelInputs == {CHANNEL_LEFT, CHANNEL_RIGHT, CHANNEL_RIGHT + 1}

SetGainStage ==
    /\ attached # "none"
    /\ \E channel \in ChannelInputs, state \in GainValues :
          /\ Commit(Changed(set_gain_stage(channel, state, Mirror, Gpios)),
                    Changed(set_gain_stage(channel, state, ref, RefGpios)))
          /\ last' = [op |-> "set_gain_stage", arg |-> channel, old |-> state, ret |-> 0]

SetTrueBypass ==
    /\ attached # "none"
    /\ \E channel \in ChannelInputs, state \in BOOLEAN :
          /\ Commit(Changed(set_true_bypass(channel, state, Mirror, Gpios)),
                    Changed(set_true_bypass(channel, state, ref, RefGpios)))
          /\ last' = [op |-> "set_true_bypass", arg |-> channel, old |-> ToInt(state),
                      ret |-> 0]

NextChannel ==
    \/ AttachDuoOk
    \/ AttachDuoXOk
    \/ SetGainStage
    \/ SetTrueBypass
    \/ \E v \in 0..1 : cv_exp_pedal_mode_put(v)

SpecChannel == InitQuiet /\ [][NextChannel]_vars

\* ------------------------------------------------------------------------
\* A board whose pins were never initialized: every attach fails at the pin
\* the init routine tests, and all setters are used
\* ------------------------------------------------------------------------
AttachDuoFail == modduo_init({"headphone_clk"})

AttachDuoXFail == moddevices_init({"gain_stage_left1"}, TRUE, TRUE, TRUE, TRUE)

NextLogical ==
    \/ AttachDuoFail
    \/ AttachDuoXFail
    \/ \E v \in 0..MaxLogicalVolume : headphone_put(v)
    \/ \E v \in GainValues : input_left_gain_stage_put(v)
    \/ \E v \in GainValues : input_right_gain_stage_put(v)
    \/ \E v \in 0..1 : left_true_bypass_put(v)
    \/ \E v \in 0..1 : right_true_bypass_put(v)
    \/ \E v \in 0..1 : headphone_cv_mode_put(v)
    \/ \E v \in 0..1 : cv_exp_pedal_mode_put(v)
    \/ \E v \in 0..1 : exp_pedal_mode_put(v)

SpecLogical == InitQuiet /\ [][NextLogical]_vars

\* --- the step amplifier written with any value the control surface passes
VolumeInputs == (0 - PutSlack)..(VolumeMax + PutSlack)

HeadphonePutAny == \E v \in VolumeInputs : headphone_put(v)

NextVolume ==
    \/ AttachDuoOk
    \/ AttachDuoXOk
    \/ detach
    \/ HeadphonePutAny

SpecVolume == InitQuiet /\ [][NextVolume]_vars

\* --- the mode arbiter, its calls serialized and the interrupt handler run
\* to completion between them
\* attaches on which gpiod_to_irq or request_irq may fail for either line
AttachDuoXIrq == \E q1, q2, r1, r2 \in BOOLEAN : moddevices_init({}, q1, q2, r1, r2)

CvExpPedalModePut == \E v \in BoolInputs : cv_exp_pedal_mode_put(v)

ExpPedalModePut == \E v \in BoolInputs : exp_pedal_mode_put(v)

NextMode ==
    \/ AttachDuoX
    \/ AttachDuoXIrq
    \/ detach
    \/ CvExpPedalModePut
    \/ ExpPedalModePut
    \/ exp_flag_irq_handler

SpecMode == InitQuiet /\ [][NextMode]_vars

\* ------------------------------------------------------------------------
\* The mode arbiter, statement by statement: one control-surface thread
\* running cv_exp_pedal_mode_put / exp_pedal_mode_put and the sense-line
\* interrupt handler, which takes no lock and may run between any two
\* statements of the thread
\* ------------------------------------------------------------------------
\* one gpiod_set_value call of a running handler
Drive(pin, val) ==
    \E hw \in {SetValue([level |-> level, amp |-> amp], acquired, W(pin, val))} :
        level' = hw.level /\ amp' = hw.amp

RaceFrame ==
    UNCHANGED <<gpioVars, ampVars, gainVars, bypassVars, headphone_cv_mode,
                log, last, ref, attach_bypass, clkVars, th>>

\* cv_exp_pedal_mode_put: the comparison with the mirror
T_cv_exp_pedal_mode_put(value) ==
    /\ attached = "duox" /\ pcT = "idle"
    /\ irq_since_call' = FALSE
    /\ IF ToInt(cv_exp_pedal_mode) # value
       THEN /\ modeT' = value
            /\ pcT' = IF value = 0 THEN "cv0" ELSE IF value = 1 THEN "cv1" ELSE "idle"
       ELSE UNCHANGED <<pcT, modeT>>
    /\ UNCHANGED <<hwVars, cv_exp_pedal_mode, exp_pedal_mode, pcI>>
    /\ RaceFrame

\* set_cv_exp_pedal_mode, case 0: cv_exp_pedal_mode = false
T_cv0_mode ==
    /\ pcT = "cv0"
    /\ cv_exp_pedal_mode' = FALSE
    /\ pcT' = IF initialized THEN "cv0_w1" ELSE "idle"
    /\ UNCHANGED <<hwVars, exp_pedal_mode, modeT, pcI, irq_since_call>>
    /\ RaceFrame

T_cv0_w1 ==
    /\ pcT = "cv0_w1"
    /\ Drive("exp_enable1", 0)
    /\ pcT' = "cv0_w2"
    /\ UNCHANGED <<cv_exp_pedal_mode, exp_pedal_mode, modeT, pcI, irq_since_call>>
    /\ RaceFrame

T_cv0_w2 ==
    /\ pcT = "cv0_w2"
    /\ Drive("exp_enable2", 0)
    /\ pcT' = "idle"
    /\ UNCHANGED <<cv_exp_pedal_mode, exp_pedal_mode, modeT, pcI, irq_since_call>>
    /\ RaceFrame

\* set_cv_exp_pedal_mode, case 1: cv_exp_pedal_mode = true
T_cv1_mode ==
    /\ pcT = "cv1"
    /\ cv_exp_pedal_mode' = TRUE
    /\ pcT' = "cv1_arg"
    /\ UNCHANGED <<hwVars, exp_pedal_mode, modeT, pcI, irq_since_call>>
    /\ RaceFrame

\* ... then set_exp_pedal_mode(exp_pedal_mode): the argument is read
T_cv1_arg ==
    /\ pcT = "cv1_arg"
    /\ modeT' = ToInt(exp_pedal_mode)
    /\ pcT' = "exp_check"
    /\ UNCHANGED <<hwVars, cv_exp_pedal_mode, exp_pedal_mode, pcI, irq_since_call>>
    /\ RaceFrame

\* exp_pedal_mode_put: the comparison with the mirror
T_exp_pedal_mode_put(value) ==
    /\ attached = "duox" /\ pcT = "idle"
    /\ irq_since_call' = FALSE
    /\ IF ToInt(exp_pedal_mode) # value
       THEN /\ modeT' = value
            /\ pcT' = IF value = 0 \/ value = 1 THEN "exp_check" ELSE "idle"
       ELSE UNCHANGED <<pcT, modeT>>
    /\ UNCHANGED <<hwVars, cv_exp_pedal_mode, exp_pedal_mode, pcI>>
    /\ RaceFrame

\* set_exp_pedal_mode: if (cv_exp_pedal_mode && initialized), then the test
\* of the two irq flags
T_exp_check ==
    /\ pcT = "exp_check"
    /\ pcT' = IF cv_exp_pedal_mode /\ initialized
              THEN IF irqFlag1 <= 0 \/ irqFlag2 <= 0 THEN "exp_store" ELSE "exp_w1"
              ELSE "exp_store"
    /\ UNCHANGED <<hwVars, cv_exp_pedal_mode, exp_pedal_mode, modeT, pcI, irq_since_call>>
    /\ RaceFrame

\* variant that leaves the line of the other side as it is
T_exp_w1_keep ==
    /\ pcT = "exp_w1"
    /\ pcT' = "exp_w2"
    /\ UNCHANGED <<hwVars, cv_exp_pedal_mode, exp_pedal_mode, modeT, pcI, irq_since_call>>
    /\ RaceFrame

\* the line of the other side is released first
T_exp_w1 ==
    /\ pcT = "exp_w1"
    /\ IF modeT = ToInt(EXP_PEDAL_SIGNAL_ON_TIP)
       THEN Drive("exp_enable1", 0)
       ELSE Drive("exp_enable2", 0)
    /\ pcT' = "exp_w2"
    /\ UNCHANGED <<cv_exp_pedal_mode, exp_pedal_mode, modeT, pcI, irq_since_call>>
    /\ RaceFrame

T_exp_w2 ==
    /\ pcT = "exp_w2"
    /\ IF modeT = ToInt(EXP_PEDAL_SIGNAL_ON_TIP)
       THEN Drive("exp_enable2", 1)
       ELSE Drive("exp_enable1", 1)
    /\ pcT' = "exp_store"
    /\ UNCHANGED <<cv_exp_pedal_mode, exp_pedal_mode, modeT, pcI, irq_since_call>>
    /\ RaceFrame

\* exp_pedal_mode = mode != 0
T_exp_store ==
    /\ pcT = "exp_store"
    /\ exp_pedal_mode' = (modeT # 0)
    /\ pcT' = "idle"
    /\ UNCHANGED <<hwVars, cv_exp_pedal_mode, modeT, pcI, irq_since_call>>
    /\ RaceFrame

\* a rising edge on a sense line whose handler is installed
I_fire ==
    /\ attached = "duox" /\ irq_registered # {}
    /\ pcI = "idle"
    /\ pcI' = "irq_mode"
    /\ irq_since_call' = TRUE
    /\ UNCHANGED <<hwVars, cv_exp_pedal_mode, exp_pedal_mode, pcT, modeT>>
    /\ RaceFrame

\* the handler's set_cv_exp_pedal_mode(0): cv_exp_pedal_mode = false
I_mode ==
    /\ pcI = "irq_mode"
    /\ cv_exp_pedal_mode' = FALSE
    /\ pcI' = IF initialized THEN "irq_w1" ELSE "idle"
    /\ UNCHANGED <<hwVars, exp_pedal_mode, pcT, modeT, irq_since_call>>
    /\ RaceFrame

I_w1 ==
    /\ pcI = "irq_w1"
    /\ Drive("exp_enable1", 0)
    /\ pcI' = "irq_w2"
    /\ UNCHANGED <<cv_exp_pedal_mode, exp_pedal_mode, pcT, modeT, irq_since_call>>
    /\ RaceFrame

I_w2 ==
    /\ pcI = "irq_w2"
    /\ Drive("exp_enable2", 0)
    /\ pcI' = "idle"
    /\ UNCHANGED <<cv_exp_pedal_mode, exp_pedal_mode, pcT, modeT, irq_since_call>>
    /\ RaceFrame

NextIrq ==
    \/ AttachDuoXOk
    \/ \E v \in 0..1 : T_cv_exp_pedal_mode_put(v)
    \/ \E v \in 0..1 : T_exp_pedal_mode_put(v)
    \/ T_cv0_mode \/ T_cv0_w1 \/ T_cv0_w2
    \/ T_cv1_mode \/ T_cv1_arg
    \/ T_exp_check \/ T_exp_w1 \/ T_exp_w2 \/ T_exp_store
    \/ I_fire \/ I_mode \/ I_w1 \/ I_w2

SpecIrq == InitQuiet /\ [][NextIrq]_vars

\* ------------------------------------------------------------------------
\* headphone_put called from two threads, statement by statement; neither
\* the handler nor set_headphone_volume takes a lock
\* ------------------------------------------------------------------------
ThreadFrame ==
    UNCHANGED <<gpioVars, gainVars, bypassVars, modeVars, log, last, ref, attach_bypass,
                clkVars, pcT, modeT, pcI, irq_since_call>>

\* headphone_put: if (headphone_volume != value)
P_headphone_put(t, value) ==
    /\ attached # "none"
    /\ th[t].pc = "idle"
    /\ th' = [th EXCEPT ![t] = [pc |-> IF headphone_volume # value THEN "steps" ELSE "idle",
                                new_volume |-> value, steps |-> 0, i |-> 0]]
    /\ UNCHANGED <<hwVars, headphone_volume>>
    /\ ThreadFrame

\* set_headphone_volume: steps = abs(new_volume - headphone_volume), then the
\* test of initialized
P_steps(t) ==
    /\ th[t].pc = "steps"
    /\ th' = [th EXCEPT ![t].steps = abs(th[t].new_volume - headphone_volume),
                        ![t].pc = IF initialized THEN "dir" ELSE "store"]
    /\ UNCHANGED <<hwVars, headphone_volume>>
    /\ ThreadFrame

\* gpiod_set_value(headphone_dir, new_volume > headphone_volume ? 1 : 0)
P_dir(t) ==
    /\ th[t].pc = "dir"
    /\ Drive("headphone_dir", IF th[t].new_volume > headphone_volume THEN 1 ELSE 0)
    /\ th' = [th EXCEPT ![t].i = 0,
                        ![t].pc = IF 0 < th[t].steps THEN "clk1" ELSE "store"]
    /\ UNCHANGED headphone_volume
    /\ ThreadFrame

\* gpiod_set_value(headphone_clk, 1)
P_clk1(t) ==
    /\ th[t].pc = "clk1"
    /\ Drive("headphone_clk", 1)
    /\ th' = [th EXCEPT ![t].pc = "clk0"]
    /\ UNCHANGED headphone_volume
    /\ ThreadFrame

\* gpiod_set_value(headphone_clk, 0); i++; i < steps
P_clk0(t) ==
    /\ th[t].pc = "clk0"
    /\ Drive("headphone_clk", 0)
    /\ th' = [th EXCEPT ![t].i = th[t].i + 1,
                        ![t].pc = IF th[t].i + 1 < th[t].steps THEN "clk1" ELSE "store"]
    /\ UNCHANGED headphone_volume
    /\ ThreadFrame

\* headphone_volume = new_volume
P_store(t) ==
    /\ th[t].pc = "store"
    /\ headphone_volume' = th[t].new_volume
    /\ th' = [th EXCEPT ![t].pc = "idle"]
    /\ UNCHANGED hwVars
    /\ ThreadFrame

RaceVolumes == 0..MaxRaceVolume

NextThreads ==
    \/ AttachDuoXOk
    \/ \E t \in Threads, v \in RaceVolumes : P_headphone_put(t, v)
    \/ \E t \in Threads : P_steps(t)
    \/ \E t \in Threads : P_dir(t)
    \/ \E t \in Threads : P_clk1(t)
    \/ \E t \in Threads : P_clk0(t)
    \/ \E t \in Threads : P_store(t)

SpecThreads == InitQuiet /\ [][NextThreads]_vars

\* variant table in which a (mclk, rate) pair comes twice and a divider
\* does not fit its field
clk_map_table_dup ==
    <<[mclk |-> 8192000, rate |-> 32000, fm_mode |-> 0, mclkdiv |-> 0],
      [mclk |-> 12288000, rate |-> 48000, fm_mode |-> 0, mclkdiv |-> 0],
      [mclk |-> 8192000, rate |-> 32000, fm_mode |-> 1, mclkdiv |-> 8]>>

\* ------------------------------------------------------------------------
\* Clock resolver
\* ------------------------------------------------------------------------
clk_map_table ==
    <<
      [mclk |-> 8192000, rate |-> 32000, fm_mode |-> 0, mclkdiv |-> 0],
      [mclk |-> 12288000, rate |-> 32000, fm_mode |-> 0, mclkdiv |-> 1],
      [mclk |-> 16384000, rate |-> 32000, fm_mode |-> 0, mclkdiv |-> 2],
      [mclk |-> 24576000, rate |-> 32000, fm_mode |-> 0, mclkdiv |-> 3],
      [mclk |-> 32768000, rate |-> 32000, fm_mode |-> 0, mclkdiv |-> 4],
      [mclk |-> 11289600, rate |-> 44100, fm_mode |-> 0, mclkdiv |-> 0],
      [mclk |-> 16934400, rate |-> 44100, fm_mode |-> 0, mclkdiv |-> 1],
      [mclk |-> 22579200, rate |-> 44100, fm_mode |-> 0, mclkdiv |-> 2],
      [mclk |-> 33868000, rate |-> 44100, fm_mode |-> 0, mclkdiv |-> 3],
      [mclk |-> 45158400, rate |-> 44100, fm_mode |-> 0, mclkdiv |-> 4],
      [mclk |-> 12288000, rate |-> 48000, fm_mode |-> 0, mclkdiv |-> 0],
      [mclk |-> 18432000, rate |-> 48000, fm_mode |-> 0, mclkdiv |-> 1],
      [mclk |-> 24576000, rate |-> 48000, fm_mode |-> 0, mclkdiv |-> 2],
      [mclk |-> 36864000, rate |-> 48000, fm_mode |-> 0, mclkdiv |-> 3],
      [mclk |-> 49152000, rate |-> 48000, fm_mode |-> 0, mclkdiv |-> 4],
      [mclk |-> 8192000, rate |-> 64000, fm_mode |-> 1, mclkdiv |-> 0],
      [mclk |-> 12288000, rate |-> 64000, fm_mode |-> 1, mclkdiv |-> 1],
      [mclk |-> 16934400, rate |-> 64000, fm_mode |-> 1, mclkdiv |-> 2],
      [mclk |-> 24576000, rate |-> 64000, fm_mode |-> 1, mclkdiv |-> 3],
      [mclk |-> 32768000, rate |-> 64000, fm_mode |-> 1, mclkdiv |-> 4],
      [mclk |-> 11289600, rate |-> 88200, fm_mode |-> 1, mclkdiv |-> 0],
      [mclk |-> 16934400, rate |-> 88200, fm_mode |-> 1, mclkdiv |-> 1],
      [mclk |-> 22579200, rate |-> 88200, fm_mode |-> 1, mclkdiv |-> 2],
      [mclk |-> 33868000, rate |-> 88200, fm_mode |-> 1, mclkdiv |-> 3],
      [mclk |-> 45158400, rate |-> 88200, fm_mode |-> 1, mclkdiv |-> 4],
      [mclk |-> 12288000, rate |-> 96000, fm_mode |-> 1, mclkdiv |-> 0],
      [mclk |-> 18432000, rate |-> 96000, fm_mode |-> 1, mclkdiv |-> 1],
      [mclk |-> 24576000, rate |-> 96000, fm_mode |-> 1, mclkdiv |-> 2],
      [mclk |-> 36864000, rate |-> 96000, fm_mode |-> 1, mclkdiv |-> 3],
      [mclk |-> 49152000, rate |-> 96000, fm_mode |-> 1, mclkdiv |-> 4],
      [mclk |-> 8192000, rate |-> 128000, fm_mode |-> 2, mclkdiv |-> 0],
      [mclk |-> 12288000, rate |-> 128000, fm_mode |-> 2, mclkdiv |-> 1],
      [mclk |-> 16934400, rate |-> 128000, fm_mode |-> 2, mclkdiv |-> 2],
      [mclk |-> 24576000, rate |-> 128000, fm_mode |-> 2, mclkdiv |-> 3],
      [mclk |-> 32768000, rate |-> 128000, fm_mode |-> 2, mclkdiv |-> 4],
      [mclk |-> 11289600, rate |-> 176400, fm_mode |-> 2, mclkdiv |-> 0],
      [mclk |-> 16934400, rate |-> 176400, fm_mode |-> 2, mclkdiv |-> 1],
      [mclk |-> 22579200, rate |-> 176400, fm_mode |-> 2, mclkdiv |-> 2],
      [mclk |-> 33868000, rate |-> 176400, fm_mode |-> 2, mclkdiv |-> 3],
      [mclk |-> 49152000, rate |-> 176400, fm_mode |-> 2, mclkdiv |-> 4],
      [mclk |-> 12288000, rate |-> 192000, fm_mode |-> 2, mclkdiv |-> 0],
      [mclk |-> 18432000, rate |-> 192000, fm_mode |-> 2, mclkdiv |-> 1],
      [mclk |-> 24576000, rate |-> 192000, fm_mode |-> 2, mclkdiv |-> 2],
      [mclk |-> 36864000, rate |-> 192000, fm_mode |-> 2, mclkdiv |-> 3],
      [mclk |-> 49152000, rate |-> 192000, fm_mode |-> 2, mclkdiv |-> 4]
    >>

\* variant of the scan that compares the sample rate only
RECURSIVE ClkScan_rate_only(_, _, _)
ClkScan_rate_only(i, mclk, rate) ==
    IF i >= Len(clk_map_table) THEN -EINVAL
    ELSE IF clk_map_table[i + 1].rate = rate THEN i
    ELSE ClkScan_rate_only(i + 1, mclk, rate)

\* the for loop of cs4265_get_clk_index from index i on
RECURSIVE ClkScan(_, _, _)
ClkScan(i, mclk, rate) ==
    IF i >= Len(clk_map_table) THEN -EINVAL
    ELSE IF clk_map_table[i + 1].rate = rate /\ clk_map_table[i + 1].mclk = mclk THEN i
    ELSE ClkScan(i + 1, mclk, rate)

\* variant of the lookup that matches on the sample rate alone
cs4265_get_clk_index_rate_only(mclk, rate) == ClkScan_rate_only(0, mclk, rate)

cs4265_get_clk_index(mclk, rate) == ClkScan(0, mclk, rate)

TableMclks == {clk_map_table[i].mclk : i \in 1..Len(clk_map_table)}

TableRates == {clk_map_table[i].rate : i \in 1..Len(clk_map_table)}

\* master clocks and sample rates asked for: those of the table, their
\* neighbours, and values of no table row
MclkInputs == TableMclks \cup {0, 8192001, 12000000, 24576001}

RateInputs == TableRates \cup {0, 8000, 44101, 47999}

ClkLookup ==
    /\ \E mclk \in MclkInputs, rate \in RateInputs :
          /\ clk_query' = [mclk |-> mclk, rate |-> rate]
          /\ clk_result' = <<cs4265_get_clk_index(mclk, rate)>>
    /\ UNCHANGED <<gpioVars, hwVars, mirrorVars, log, last, ref, attach_bypass, raceVars,
                   daiVars, rm>>

NextClk == ClkLookup

SpecClk == InitQuiet /\ [][NextClk]_vars

\* ------------------------------------------------------------------------
\* DAI operations: set_sysclk, set_fmt, hw_params
\* ------------------------------------------------------------------------
\* x & y on non-negative words
RECURSIVE BitAnd(_, _)
BitAnd(x, y) ==
    IF x = 0 \/ y = 0 THEN 0
    ELSE (x % 2) * (y % 2) + 2 * BitAnd(x \div 2, y \div 2)

\* variant that stores val whole, without the mask
update_bits_nomask(r, reg, mask, val) == [r EXCEPT ![reg] = val]

\* snd_soc_component_update_bits: (old & ~mask) | (val & mask)
update_bits(r, reg, mask, val) ==
    [r EXCEPT ![reg] = (r[reg] - BitAnd(r[reg], mask)) + BitAnd(val, mask)]

U(reg, mask, val) == [reg |-> reg, mask |-> mask, val |-> val]

RECURSIVE UpdateAll(_, _)
UpdateAll(r, us) ==
    IF us = <<>> THEN r
    ELSE UpdateAll(update_bits(r, Head(us).reg, Head(us).mask, Head(us).val), Tail(us))

\* variant without the early return for freq == 0
cs4245_set_sysclk_no_zero(clk_id, freq, s) ==
    IF clk_id # 0 THEN [ret |-> -EINVAL, sysclk |-> s]
    ELSE IF \E i \in 1..Len(clk_map_table) : clk_map_table[i].mclk = freq
    THEN [ret |-> 0, sysclk |-> freq]
    ELSE [ret |-> -EINVAL, sysclk |-> 0]

\* cs4245_set_sysclk / cs4265_set_sysclk; s is the stored sysclk
cs4245_set_sysclk(clk_id, freq, s) ==
    IF freq = 0 THEN [ret |-> 0, sysclk |-> s]
    ELSE IF clk_id # 0 THEN [ret |-> -EINVAL, sysclk |-> s]
    ELSE IF \E i \in 1..Len(clk_map_table) : clk_map_table[i].mclk = freq
    THEN [ret |-> 0, sysclk |-> freq]
    ELSE [ret |-> -EINVAL, sysclk |-> 0]

\* cs4245_set_fmt; f is the stored format
cs4245_set_fmt(fmt, f) ==
    LET master == BitAnd(fmt, SND_SOC_DAIFMT_MASTER_MASK)
        iface == BitAnd(fmt, SND_SOC_DAIFMT_FORMAT_MASK)
    IN IF master = SND_SOC_DAIFMT_CBM_CFM
          /\ iface \in {SND_SOC_DAIFMT_I2S, SND_SOC_DAIFMT_RIGHT_J, SND_SOC_DAIFMT_LEFT_J}
       THEN [ret |-> 0, format |-> iface,
             writes |-> <<U(CS4245_ADC_CTL, CS4245_ADC_MASTER, CS4245_ADC_MASTER)>>]
       ELSE IF master = SND_SOC_DAIFMT_CBM_CFM
       THEN [ret |-> -EINVAL, format |-> f,
             writes |-> <<U(CS4245_ADC_CTL, CS4245_ADC_MASTER, CS4245_ADC_MASTER)>>]
       ELSE IF master = SND_SOC_DAIFMT_CBS_CFS
          /\ iface \in {SND_SOC_DAIFMT_I2S, SND_SOC_DAIFMT_RIGHT_J, SND_SOC_DAIFMT_LEFT_J}
       THEN [ret |-> 0, format |-> iface,
             writes |-> <<U(CS4245_ADC_CTL, CS4245_ADC_MASTER, 0)>>]
       ELSE IF master = SND_SOC_DAIFMT_CBS_CFS
       THEN [ret |-> -EINVAL, format |-> f,
             writes |-> <<U(CS4245_ADC_CTL, CS4245_ADC_MASTER, 0)>>]
       ELSE [ret |-> -EINVAL, format |-> f, writes |-> <<>>]

\* cs4245_pcm_hw_params after the lookup returned index; iface is
\* format & SND_SOC_DAIFMT_FORMAT_MASK
HwParamsWith(index, stream, width, iface) ==
    LET clock == <<U(CS4245_ADC_CTL, CS4245_ADC_FM, clk_map_table[index + 1].fm_mode * 64),
                   U(CS4245_MCLK_FREQ, CS4245_MCLK_FREQ_MASK,
                     clk_map_table[index + 1].mclkdiv * 16)>>
    IN IF stream = SNDRV_PCM_STREAM_CAPTURE /\ iface = SND_SOC_DAIFMT_RIGHT_J
       THEN [ret |-> -EINVAL, writes |-> <<>>]
       ELSE IF index < 0
       THEN [ret |-> -EINVAL, writes |-> <<>>]
       ELSE IF iface = SND_SOC_DAIFMT_I2S
       THEN [ret |-> 0,
             writes |-> clock \o <<U(CS4245_DAC_CTL, CS4245_DAC_CTL_DIF, 1 * 16),
                                   U(CS4245_ADC_CTL, CS4245_ADC_DIF, 1 * 16)>>]
       ELSE IF iface = SND_SOC_DAIFMT_RIGHT_J
       THEN [ret |-> 0,
             writes |-> clock \o <<U(CS4245_DAC_CTL, CS4245_DAC_CTL_DIF,
                                     IF width = 16 THEN 2 * 16 ELSE 3 * 16)>>]
       ELSE IF iface = SND_SOC_DAIFMT_LEFT_J
       THEN [ret |-> 0,
             writes |-> clock \o <<U(CS4245_DAC_CTL, CS4245_DAC_CTL_DIF, 0),
                                   U(CS4245_ADC_CTL, CS4245_ADC_DIF, 0)>>]
       ELSE [ret |-> -EINVAL, writes |-> clock]

\* variant that treats every stream as playback
cs4245_pcm_hw_params_nocapture(stream, rate, width, s, f) ==
    CHOOSE r \in {HwParamsWith(index, SNDRV_PCM_STREAM_PLAYBACK, width, iface) :
                     index \in {cs4265_get_clk_index(s, rate)},
                     iface \in {BitAnd(f, SND_SOC_DAIFMT_FORMAT_MASK)}} : TRUE

\* cs4245_pcm_hw_params; s and f are the stored sysclk and format
cs4245_pcm_hw_params(stream, rate, width, s, f) ==
    CHOOSE r \in {HwParamsWith(index, stream, width, iface) :
                     index \in {cs4265_get_clk_index(s, rate)},
                     iface \in {BitAnd(f, SND_SOC_DAIFMT_FORMAT_MASK)}} : TRUE

DaiFrame ==
    UNCHANGED <<gpioVars, hwVars, mirrorVars, log, last, ref, attach_bypass, raceVars,
                clk_query, clk_result, rm>>

\* master clocks handed to set_sysclk: none, two of the table, one of no row
FreqInputs == {0, 24576000, 12000000}

ClkIdInputs == {0, 1}

\* sample rates handed to hw_params: two of the table, one of no row
HwRateInputs == {48000, 96000, 8000}

WidthInputs == {16, 24}

\* format words handed to set_fmt: the two clock roles the driver accepts and
\* one it does not (CBS_CFM), each with the interface formats 1..4 (4 is
\* none of the three accepted)
FmtInputs ==
    {m + i : m \in {SND_SOC_DAIFMT_CBM_CFM, SND_SOC_DAIFMT_CBS_CFS, 8192}, i \in 1..4}

\* cs4245_digital_mute: both mute bits are set or cleared, the result of
\* the updates is not looked at
cs4245_digital_mute(mute) ==
    IF mute # 0
    THEN [ret |-> 0,
          writes |-> <<U(CS4245_DAC_CTL, CS4245_DAC_CTL_MUTE, CS4245_DAC_CTL_MUTE),
                       U(CS4245_ADC_CTL, CS4245_ADC_CTL_MUTE, CS4245_ADC_CTL_MUTE)>>]
    ELSE [ret |-> 0,
          writes |-> <<U(CS4245_DAC_CTL, CS4245_DAC_CTL_MUTE, 0),
                       U(CS4245_ADC_CTL, CS4245_ADC_CTL_MUTE, 0)>>]

\* an update makes a bus transfer only when it changes the register; with
\* fail the first transfer the operation makes fails
BusFails(r, r2, fail) == fail /\ r2 # r

NoFailure == {FALSE}

AnyFailure == BOOLEAN

SetSysclk ==
    /\ \E clk_id \in ClkIdInputs, freq \in FreqInputs :
         \E r \in {cs4245_set_sysclk(clk_id, freq, sysclk)} :
            /\ sysclk' = r.sysclk
            /\ dai' = [op |-> "set_sysclk", a1 |-> clk_id, a2 |-> freq, a3 |-> 0,
                       ret |-> r.ret, sysclk0 |-> sysclk, format0 |-> format,
                       writes |-> <<>>]
            /\ clk_failed' = IF r.ret < 0 THEN TRUE
                             ELSE IF freq # 0 THEN FALSE ELSE clk_failed
    /\ bus_failed' = FALSE
    /\ UNCHANGED <<format, regs>>
    /\ DaiFrame

\* the cache takes every update; a failed transfer changes nothing the
\* operation looks at
DoSetFmt(Fails) ==
    /\ \E fmt \in FmtInputs, fail \in Fails :
         \E r \in {cs4245_set_fmt(fmt, format)} :
            /\ format' = r.format
            /\ regs' = UpdateAll(regs, r.writes)
            /\ dai' = [op |-> "set_fmt", a1 |-> fmt, a2 |-> 0, a3 |-> 0,
                       ret |-> r.ret, sysclk0 |-> sysclk, format0 |-> format,
                       writes |-> r.writes]
            /\ bus_failed' = BusFails(regs, regs', fail)
    /\ UNCHANGED <<sysclk, clk_failed>>
    /\ DaiFrame

DoHwParams(Fails) ==
    /\ \E stream \in {SNDRV_PCM_STREAM_PLAYBACK, SNDRV_PCM_STREAM_CAPTURE},
          rate \in HwRateInputs, width \in WidthInputs, fail \in Fails :
         \E r \in {cs4245_pcm_hw_params(stream, rate, width, sysclk, format)} :
            /\ regs' = UpdateAll(regs, r.writes)
            /\ dai' = [op |-> "hw_params", a1 |-> stream, a2 |-> rate, a3 |-> width,
                       ret |-> r.ret, sysclk0 |-> sysclk, format0 |-> format,
                       writes |-> r.writes]
            /\ bus_failed' = BusFails(regs, regs', fail)
    /\ UNCHANGED <<sysclk, format, clk_failed>>
    /\ DaiFrame

DoMute(Fails) ==
    /\ \E mute \in 0..1, fail \in Fails :
         \E r \in {cs4245_digital_mute(mute)} :
            /\ regs' = UpdateAll(regs, r.writes)
            /\ dai' = [op |-> "mute", a1 |-> mute, a2 |-> 0, a3 |-> 0,
                       ret |-> r.ret, sysclk0 |-> sysclk, format0 |-> format,
                       writes |-> r.writes]
            /\ bus_failed' = BusFails(regs, regs', fail)
    /\ UNCHANGED <<sysclk, format, clk_failed>>
    /\ DaiFrame

SetFmt == DoSetFmt(NoFailure)

HwParams == DoHwParams(NoFailure)

Mute == DoMute(NoFailure)

NextDai == SetSysclk \/ SetFmt \/ HwParams \/ Mute

SpecDai == InitQuiet /\ [][NextDai]_vars

\* cs4245_i2c_probe. The result of the identifier read is not looked at:
\* after a failed read reg is uninitialized and the identifier compared is
\* whatever it holds (garbage). The register setup follows a match, its
\* results are not looked at either; then the component is registered
\* (compok) and, if that succeeded, modduo_init runs and its result is
\* returned.
cs4245_i2c_probe(readok, id, garbage, compok) ==
    LET reg == IF readok THEN id ELSE garbage
        devid == BitAnd(reg, CS4245_CHIP_ID_MASK)
    IN IF devid # CS4245_CHIP_ID_VAL
       THEN [ret |-> -ENODEV, reg |-> reg, setup |-> FALSE, init |-> FALSE]
       ELSE IF ~compok
       THEN [ret |-> -ENOMEM, reg |-> reg, setup |-> TRUE, init |-> FALSE]
       ELSE [ret |-> 0, reg |-> reg, setup |-> TRUE, init |-> TRUE]

\* the setup writes to the registers kept here
ProbeSetupWrites ==
    <<U(CS4245_DAC_CTL, 255, 8 + CS4245_DAC_CTL_MUTE),
      U(CS4245_ADC_CTL, 255, CS4245_ADC_CTL_MUTE)>>

\* identifier register contents: the chip with two revisions, another chip
IdInputs == {CS4245_CHIP_ID_VAL, CS4245_CHIP_ID_VAL + 1, 208}

\* what an uninitialized reg may hold: a matching and another identifier
GarbageInputs == {CS4245_CHIP_ID_VAL + 1, 208}

\* the private data starts zeroed on every probe that gets to allocate the
\* component
DoProbe(Fails) ==
    /\ attached = "none"
    /\ \E readok \in BOOLEAN, id \in IdInputs, compok \in BOOLEAN :
         \E garbage \in IF readok THEN {id} ELSE GarbageInputs :
         \E r \in {cs4245_i2c_probe(readok, id, garbage, compok)} :
         \E busfail \in IF r.setup THEN BOOLEAN ELSE {FALSE},
            fail \in IF r.init THEN Fails ELSE {{}} :
            /\ regs' = IF r.setup THEN ProbeRegs ELSE regs
            /\ sysclk' = IF r.setup THEN 0 ELSE sysclk
            /\ format' = IF r.setup THEN 0 ELSE format
            /\ clk_failed' = IF r.setup THEN FALSE ELSE clk_failed
            /\ dai' = [op |-> "probe", a1 |-> ToInt(readok), a2 |-> id, a3 |-> r.reg,
                       ret |-> r.ret, sysclk0 |-> sysclk, format0 |-> format,
                       writes |-> IF r.setup THEN ProbeSetupWrites ELSE <<>>]
            /\ bus_failed' = (r.setup /\ busfail)
            /\ IF r.init
               THEN modduo_init_body(fail)
               ELSE UNCHANGED <<gpioVars, hwVars, mirrorVars, log, last, ref,
                                attach_bypass, raceVars>>
    /\ UNCHANGED <<clk_query, clk_result, rm>>

\* a probe on a board whose pins are all there
Probe == DoProbe({{}})

\* the codec operations of a bound device, whose bus transfers may fail
SetSysclkBus == attached # "none" /\ SetSysclk

SetFmtBus == attached # "none" /\ DoSetFmt(AnyFailure)

HwParamsBus == attached # "none" /\ DoHwParams(AnyFailure)

MuteBus == attached # "none" /\ DoMute(AnyFailure)

NextBus == Probe \/ SetSysclkBus \/ SetFmtBus \/ HwParamsBus \/ MuteBus

SpecBus == InitQuiet /\ [][NextBus]_vars

\* probing and unbinding, with codec operations in between
ProbeAny == DoProbe(AcquireFailures)

NextProbe == ProbeAny \/ detach \/ SetFmt \/ Mute

SpecProbe == InitQuiet /\ [][NextProbe]_vars

\* ------------------------------------------------------------------------
\* Properties of the step amplifier (SpecAmp)
\* ------------------------------------------------------------------------
InitOps == {"moddevices_init", "modduo_init"}

AmpReady == attached # "none" /\ initialized /\ AmpPins \subseteq acquired

\* C3: with initialized = true, after init and after any sequence of
\* headphone_put calls the amplifier's step counter equals headphone_volume.
C3_MirrorEqualsAmplifier == AmpReady => amp = headphone_volume

\* C4: a volume change from c to t (both in 0..15, initialized = true) writes
\* the direction pin once, high iff t > c, before any clock write, then issues
\* exactly |t - c| pulses (clock 1 then clock 0); a put of the current value
\* issues no pulse and leaves the direction pin untouched.
C4_DirectionThenPulses ==
    (/\ last.op = "headphone_put"
     /\ AmpReady
     /\ last.old \in 0..15
     /\ last.arg \in 0..15)
    => IF last.arg = last.old
       THEN log = <<>>
       ELSE /\ Len(log) = 1 + 2 * (IF last.arg > last.old
                                   THEN last.arg - last.old
                                   ELSE last.old - last.arg)
            /\ log[1] = [pin |-> "headphone_dir",
                         val |-> IF last.arg > last.old THEN 1 ELSE 0]
            /\ \A i \in 2..Len(log) :
                  log[i] = [pin |-> "headphone_clk",
                            val |-> IF i % 2 = 0 THEN 1 ELSE 0]

\* a change from 7 up to 11 has been made: one direction write and 4 pulses
C4_Witness ==
    /\ last.op = "headphone_put" /\ AmpReady
    /\ last.old = 7 /\ last.arg = 11
    /\ Len(log) = 9 /\ headphone_volume = 11

\* C5: an attach that reaches initialized = true drives headphone_dir low and
\* then issues exactly 16 clock pulses, and this leaves the amplifier at step 0
\* from every prior position, headphone_clk having been acquired high.
C5_InitForcesStepZero ==
    (last.op \in InitOps /\ AmpReady)
    => /\ Len(log) >= 33
       /\ log[1] = [pin |-> "headphone_dir", val |-> 0]
       /\ \A i \in 2..33 :
             log[i] = [pin |-> "headphone_clk", val |-> IF i % 2 = 0 THEN 1 ELSE 0]
       /\ \A i \in 34..Len(log) : log[i].pin \notin AmpPins
       /\ level["headphone_dir"] = 0
       /\ amp = 0

\* an attach found the amplifier at its top step and left it at step 0
C5_Witness ==
    /\ last.op \in InitOps /\ AmpReady
    /\ last.old = 15 /\ amp = 0

\* C6: every completed attach records the amplifier position as 0:
\* headphone_volume = 0 right after moddevices_init / modduo_init returns,
\* also on a re-attach after earlier volume changes.
C6_AttachRecordsZero == last.op \in InitOps => headphone_volume = 0

\* ------------------------------------------------------------------------
\* Properties of the encoders
\* ------------------------------------------------------------------------
\* C7: with initialized = false every setter called with a valid value
\* updates its mirror, so the getter returns the new value, and issues no pin
\* write; the getters report what they would report with initialized = true.
C7_LogicalOnly ==
    (attached # "none" /\ ~initialized)
    => /\ log = <<>>
       /\ ref = Mirror
       /\ last.op = "headphone_put" => headphone_volume = last.arg
       /\ last.op = "input_left_gain_stage_put" => input_left_gain_stage = last.arg
       /\ last.op = "input_right_gain_stage_put" => input_right_gain_stage = last.arg
       /\ last.op = "left_true_bypass_put" => left_true_bypass = (last.arg = 1)
       /\ last.op = "right_true_bypass_put" => right_true_bypass = (last.arg = 1)
       /\ last.op = "headphone_cv_mode_put" => headphone_cv_mode = (last.arg = 1)
       /\ last.op = "cv_exp_pedal_mode_put" => cv_exp_pedal_mode = (last.arg = 1)
       /\ last.op = "exp_pedal_mode_put" => exp_pedal_mode = (last.arg = 1)

\* every mirror has been moved off its initial value without initialized pins
C7_Witness ==
    /\ attached = "duox" /\ ~initialized
    /\ headphone_volume = 3
    /\ input_left_gain_stage = 2 /\ input_right_gain_stage = 1
    /\ ~left_true_bypass /\ ~right_true_bypass
    /\ headphone_cv_mode /\ cv_exp_pedal_mode /\ exp_pedal_mode
    /\ level["exp_enable1"] = 1 /\ level["exp_enable2"] = 1
    /\ log = <<>>

\* C8: set_gain_stage with initialized = true writes the channel's (pin1,
\* pin2) as 0 -> (1,1), 1 -> (1,0), 2 -> (0,1), 3 -> (0,0) whatever the mirror
\* and the pins were before, and a second call with the same arguments
\* performs the same two writes.
C8_GainEncoding ==
    LET table == <<<<1, 1>>, <<1, 0>>, <<0, 1>>, <<0, 0>>>>
        pins == <<<<"gain_stage_left1", "gain_stage_left2">>,
                  <<"gain_stage_right1", "gain_stage_right2">>>>
        expect(ch, v) == <<[pin |-> pins[ch + 1][1], val |-> table[v + 1][1]],
                           [pin |-> pins[ch + 1][2], val |-> table[v + 1][2]]>>
    IN (attached # "none" /\ initialized /\ GainPins \subseteq acquired)
       => /\ \A ch \in 0..1, v \in 0..3 :
               LET once == set_gain_stage(ch, v, Mirror, Gpios)
                   twice == set_gain_stage(ch, v, once.m, Gpios)
               IN once.writes = expect(ch, v) /\ twice.writes = expect(ch, v)
          /\ (last.op = "input_left_gain_stage_put" /\ last.ret = 1 /\ last.arg \in 0..3)
             => /\ log = expect(0, last.arg)
                /\ level["gain_stage_left1"] = table[last.arg + 1][1]
                /\ level["gain_stage_left2"] = table[last.arg + 1][2]
          /\ (last.op = "input_right_gain_stage_put" /\ last.ret = 1 /\ last.arg \in 0..3)
             => /\ log = expect(1, last.arg)
                /\ level["gain_stage_right1"] = table[last.arg + 1][1]
                /\ level["gain_stage_right2"] = table[last.arg + 1][2]

\* the left channel was taken from level 3 to level 2
C8_Witness ==
    /\ initialized /\ GainPins \subseteq acquired
    /\ last.op = "input_left_gain_stage_put" /\ last.ret = 1
    /\ last.old = 3 /\ last.arg = 2
    /\ level["gain_stage_left1"] = 0 /\ level["gain_stage_left2"] = 1

\* C9: set_true_bypass(channel, true) drives the channel's pin to 0 and
\* set_true_bypass(channel, false) drives it to 1; so, with initialized = true
\* and the pin acquired while its mirror was true, the pin level is 0 exactly
\* when the mirror is true, through any sequence of bypass puts.
C9_BypassInverted ==
    (attached # "none" /\ initialized /\ BypassPins \subseteq acquired)
    => /\ (last.op = "left_true_bypass_put" /\ last.ret = 1)
          => log = <<[pin |-> "true_bypass_left",
                      val |-> IF last.arg # 0 THEN 0 ELSE 1]>>
       /\ (last.op = "right_true_bypass_put" /\ last.ret = 1)
          => log = <<[pin |-> "true_bypass_right",
                      val |-> IF last.arg # 0 THEN 0 ELSE 1]>>
       /\ attach_bypass.left
          => (level["true_bypass_left"] = 0 <=> left_true_bypass)
       /\ attach_bypass.right
          => (level["true_bypass_right"] = 0 <=> right_true_bypass)

\* the left relay was switched from bypass to process
C9_Witness ==
    /\ initialized /\ BypassPins \subseteq acquired /\ attach_bypass.left
    /\ last.op = "left_true_bypass_put" /\ last.ret = 1 /\ last.arg = 0
    /\ ~left_true_bypass
    /\ level["true_bypass_left"] = 1

\* ------------------------------------------------------------------------
\* Properties of the mode arbiter under interleaving (SpecIrq)
\* ------------------------------------------------------------------------
\* C1: once the interrupt handler has run and the explicit call it
\* interrupted has finished, with no explicit call started after the handler,
\* the arbiter is in CvMode: cv_exp_pedal_mode is false and both drive lines
\* are low.
C1_IrqForcesCvMode ==
    (irq_since_call /\ pcT = "idle" /\ pcI = "idle")
    => /\ ~cv_exp_pedal_mode
       /\ level["exp_enable1"] = 0
       /\ level["exp_enable2"] = 0

\* C2: the explicit path and the interrupt path exclude each other on the
\* drive-line pair: no mode write or pin write of the handler falls between
\* the check of cv_exp_pedal_mode and the last pin write of an explicit call,
\* and no check, mode write or pin write of an explicit call falls between
\* the handler's mode write and its last pin write.
C2_DriveLinesExclusive ==
    [][/\ (pcT \in {"exp_w1", "exp_w2"} /\ pcI \in {"irq_mode", "irq_w1", "irq_w2"})
          => pcI' = pcI
       /\ (pcI \in {"irq_w1", "irq_w2"}
           /\ pcT \in {"cv0", "cv0_w1", "cv0_w2", "cv1", "exp_check", "exp_w1", "exp_w2"})
          => pcT' = pcT]_vars

\* ------------------------------------------------------------------------
\* Properties of the clock resolver (SpecClk)
\* ------------------------------------------------------------------------
\* C10: for a (mclk, rate) pair that is a row of clk_map_table the lookup
\* returns the index of that row, so that the resolved fm_mode and mclkdiv
\* are the tabulated ones; for any other pair it returns -EINVAL.
C10_ExactMatch ==
    clk_result # <<>>
    => LET rows == {i \in 1..Len(clk_map_table) :
                      /\ clk_map_table[i].mclk = clk_query.mclk
                      /\ clk_map_table[i].rate = clk_query.rate}
           idx == clk_result[1]
       IN IF rows = {}
          THEN idx = -EINVAL
          ELSE /\ idx + 1 \in rows
               /\ \A i \in rows :
                     /\ clk_map_table[i].fm_mode = clk_map_table[idx + 1].fm_mode
                     /\ clk_map_table[i].mclkdiv = clk_map_table[idx + 1].mclkdiv

\* 12.288 MHz at 48 kHz resolved to row 10 (fm_mode 0, divider 0)
C10_Witness ==
    /\ clk_query = [mclk |-> 12288000, rate |-> 48000]
    /\ clk_result = <<10>>
    /\ clk_map_table[11].fm_mode = 0
    /\ clk_map_table[11].mclkdiv = 0

\* ------------------------------------------------------------------------
\* Properties of the DAI operations (SpecDai)
\* ------------------------------------------------------------------------
\* C11: set_sysclk accepts a non-zero frequency only if it is the mclk of a
\* table row and then stores it; the stored value persists through every
\* other operation; every set_sysclk call that returns an error leaves
\* sysclk = 0.
C11_SysclkAcceptedOrCleared ==
    /\ (dai.op = "set_sysclk" /\ dai.ret = 0 /\ dai.a2 # 0)
       => (dai.a2 \in TableMclks /\ sysclk = dai.a2)
    /\ (dai.op = "set_sysclk" /\ dai.ret < 0) => sysclk = 0
    /\ dai.op \in {"set_fmt", "hw_params"} => sysclk = dai.sysclk0

\* C12: set_sysclk with freq = 0 returns 0 and changes neither sysclk nor the
\* format nor a register, whatever sysclk and clk_id are.
C12_ZeroFreqNoOp ==
    (dai.op = "set_sysclk" /\ dai.a2 = 0)
    => /\ dai.ret = 0
       /\ sysclk = dai.sysclk0
       /\ format = dai.format0
       /\ dai.writes = <<>>

\* freq = 0 with a bad clk_id while a clock is stored
C12_Witness ==
    /\ dai.op = "set_sysclk" /\ dai.a2 = 0 /\ dai.a1 = 1
    /\ dai.ret = 0 /\ sysclk = 24576000

\* C13: after a failed set_sysclk, and until a set_sysclk succeeds with a
\* non-zero frequency, every hw_params call returns an error and writes no
\* clock bits.
C13_NoStaleClock ==
    (dai.op = "hw_params" /\ clk_failed)
    => /\ dai.ret < 0
       /\ \A i \in 1..Len(dai.writes) :
             dai.writes[i].mask \notin {CS4245_ADC_FM, CS4245_MCLK_FREQ_MASK}

\* ------------------------------------------------------------------------
\* Properties of the mode arbiter with serialized calls (SpecMode)
\* ------------------------------------------------------------------------
DrivePins == {"exp_enable1", "exp_enable2"}

DriveLines == <<level["exp_enable1"], level["exp_enable2"]>>

\* the drive lines after the writes ws
DriveLinesAfter(ws) ==
    LET hw == Apply([level |-> level, amp |-> amp], acquired, ws)
    IN <<hw.level["exp_enable1"], hw.level["exp_enable2"]>>

\* the one line asserted for a sub-state: tip -> (0,1), ring -> (1,0)
SidePattern(ring) == IF ring THEN <<1, 0>> ELSE <<0, 1>>

IrqReady ==
    /\ attached = "duox" /\ initialized /\ DrivePins \subseteq acquired
    /\ irqFlag1 > 0 /\ irqFlag2 > 0

\* C14: with both sense-line interrupts registered and initialized = true,
\* set_cv_exp_pedal_mode(1) sets cv_exp_pedal_mode, keeps the remembered
\* sub-state and leaves the drive lines at (0,1) for tip and (1,0) for ring,
\* from every state reached by earlier mode calls and interrupts.
C14_ReenterAssertsOneLine ==
    IrqReady
    => /\ LET r == set_cv_exp_pedal_mode(1, Mirror, Gpios)
          IN /\ r.m = [Mirror EXCEPT !.cv_exp_pedal_mode = TRUE]
             /\ DriveLinesAfter(r.writes) = SidePattern(exp_pedal_mode)
       /\ (last.op = "cv_exp_pedal_mode_put" /\ last.arg = 1 /\ last.ret = 1)
          => (cv_exp_pedal_mode /\ DriveLines = SidePattern(exp_pedal_mode))

\* expression-pedal mode re-entered on the ring side
C14_Witness ==
    /\ IrqReady
    /\ last.op = "cv_exp_pedal_mode_put" /\ last.arg = 1 /\ last.ret = 1
    /\ exp_pedal_mode /\ cv_exp_pedal_mode
    /\ DriveLines = <<1, 0>>

\* C15: when irqFlag1 <= 0 or irqFlag2 <= 0, set_cv_exp_pedal_mode(1) and
\* set_exp_pedal_mode(0|1) store the requested values and write no pin, and
\* the drive lines, set to (0,0) by the init, stay there through every
\* sequence of mode calls.
C15_DegradedLogicalOnly ==
    (attached = "duox" /\ (irqFlag1 <= 0 \/ irqFlag2 <= 0))
    => /\ LET r == set_cv_exp_pedal_mode(1, Mirror, Gpios)
          IN /\ r.writes = <<>>
             /\ r.m = [Mirror EXCEPT !.cv_exp_pedal_mode = TRUE]
       /\ \A v \in 0..1 :
             LET r == set_exp_pedal_mode(v, Mirror, Gpios)
             IN /\ r.writes = <<>>
                /\ r.m = [Mirror EXCEPT !.exp_pedal_mode = (v = 1)]
       /\ (last.op \in {"cv_exp_pedal_mode_put", "exp_pedal_mode_put"} /\ last.arg = 1)
          => log = <<>>
       /\ (initialized /\ DrivePins \subseteq acquired) => DriveLines = <<0, 0>>

\* ring side selected in expression-pedal mode without interrupts: no line
\* is driven
C15_Witness ==
    /\ attached = "duox" /\ initialized /\ DrivePins \subseteq acquired
    /\ irqFlag1 <= 0
    /\ last.op = "exp_pedal_mode_put" /\ last.arg = 1 /\ last.ret = 1
    /\ cv_exp_pedal_mode /\ exp_pedal_mode
    /\ DriveLines = <<0, 0>>

\* C16: while cv_exp_pedal_mode is false, set_exp_pedal_mode(tip|ring) writes
\* no pin, the drive lines stay (0,0), only exp_pedal_mode is updated, and
\* the next set_cv_exp_pedal_mode(1) asserts the line of the stored side.
C16_SideRememberedInCvMode ==
    (attached = "duox" /\ ~cv_exp_pedal_mode)
    => /\ \A v \in 0..1 :
             LET r == set_exp_pedal_mode(v, Mirror, Gpios)
                 again == set_cv_exp_pedal_mode(1, r.m, Gpios)
             IN /\ r.writes = <<>>
                /\ r.m = [Mirror EXCEPT !.exp_pedal_mode = (v = 1)]
                /\ IrqReady => DriveLinesAfter(again.writes) = SidePattern(v = 1)
       /\ (last.op = "exp_pedal_mode_put" /\ last.ret = 1) => log = <<>>
       /\ (initialized /\ DrivePins \subseteq acquired) => DriveLines = <<0, 0>>

\* the ring side was selected while in CV mode
C16_Witness ==
    /\ IrqReady /\ ~cv_exp_pedal_mode
    /\ last.op = "exp_pedal_mode_put" /\ last.arg = 1 /\ last.ret = 1
    /\ exp_pedal_mode
    /\ log = <<>> /\ DriveLines = <<0, 0>>

\* C17: whenever moddevices_init returns with exp_enable1 and exp_enable2
\* acquired, cv_exp_pedal_mode is false and both drive lines are low.
C17_InitialCvMode ==
    (last.op = "moddevices_init" /\ DrivePins \subseteq acquired)
    => (~cv_exp_pedal_mode /\ DriveLines = <<0, 0>>)

\* ------------------------------------------------------------------------
\* Properties of the control surface
\* ------------------------------------------------------------------------
\* what the getter matching the put handler op reports
Getter(op) ==
    IF op = "headphone_put" THEN headphone_volume
    ELSE IF op = "input_left_gain_stage_put" THEN input_left_gain_stage
    ELSE IF op = "input_right_gain_stage_put" THEN input_right_gain_stage
    ELSE IF op = "left_true_bypass_put" THEN ToInt(left_true_bypass)
    ELSE IF op = "right_true_bypass_put" THEN ToInt(right_true_bypass)
    ELSE IF op = "headphone_cv_mode_put" THEN ToInt(headphone_cv_mode)
    ELSE IF op = "cv_exp_pedal_mode_put" THEN ToInt(cv_exp_pedal_mode)
    ELSE ToInt(exp_pedal_mode)

PutOps ==
    {"headphone_put", "input_left_gain_stage_put", "input_right_gain_stage_put",
     "left_true_bypass_put", "right_true_bypass_put", "headphone_cv_mode_put",
     "cv_exp_pedal_mode_put", "exp_pedal_mode_put"}

\* C18: every put handler, for every integer written, returns 1 exactly when
\* the value its getter reports after the call differs from the value it
\* reported before, and 0 otherwise.
C18_ReturnsWhetherChanged ==
    last.op \in PutOps
    => /\ last.ret \in {0, 1}
       /\ last.ret = 1 <=> Getter(last.op) # last.old

\* C19: in every reachable state, whatever integers headphone_put was
\* called with, 0 <= headphone_volume <= 15.
C19_VolumeInDomain == headphone_volume \in 0..VolumeMax

\* C20: with initialized = true and the gain pins acquired, after init and
\* any sequence of gain-stage puts with any integer, each channel's mirror is
\* in 0..3 and the channel's two pins hold the pattern of the mirror value.
C20_GainMirrorMatchesPins ==
    LET table == <<<<1, 1>>, <<1, 0>>, <<0, 1>>, <<0, 0>>>>
    IN (attached # "none" /\ initialized /\ GainPins \subseteq acquired)
       => /\ input_left_gain_stage \in 0..GainMax
          /\ input_right_gain_stage \in 0..GainMax
          /\ <<level["gain_stage_left1"], level["gain_stage_left2"]>>
                = table[input_left_gain_stage + 1]
          /\ <<level["gain_stage_right1"], level["gain_stage_right2"]>>
                = table[input_right_gain_stage + 1]

\* ------------------------------------------------------------------------
\* Properties of concurrent volume changes (SpecThreads)
\* ------------------------------------------------------------------------
\* thread t has written the direction pin and not yet made the last clock
\* write of its call
InRun(t) == th[t].pc \in {"clk1", "clk0"}

\* thread t writes headphone_dir or headphone_clk in this step
WritesAmpPin(t) == th[t].pc \in {"dir", "clk1", "clk0"} /\ th'[t] # th[t]

\* C21: between the direction write of a volume change and the last clock
\* write of the same change no other call writes headphone_dir or
\* headphone_clk, also when two threads call headphone_put at once.
C21_RunNotInterleaved ==
    [][\A t \in Threads, u \in Threads :
          (t # u /\ InRun(t)) => ~WritesAmpPin(u)]_vars

\* C26: every headphone_put call, for every value the control surface can
\* pass, ends after at most 15 clock pulses.
C26_AtMostFifteenPulses ==
    last.op = "headphone_put"
    => Len(SelectSeq(log, LAMBDA w : w.pin = "headphone_clk" /\ w.val = 1)) <= VolumeMax

\* Register accesses
RegmapFrame ==
    UNCHANGED <<gpioVars, hwVars, mirrorVars, log, last, ref, attach_bypass, raceVars,
                clk_query, clk_result, daiVars>>

RegWrite ==
    /\ \E reg \in RegAddrs, val \in RegValues, busok \in BOOLEAN :
          rm' = regmap_write(rm, reg, val, busok)
    /\ RegmapFrame

\* rm.written after a read is the successful write the read directly follows
RegRead ==
    /\ \E reg \in RegAddrs, busok \in BOOLEAN, hw \in RegValues :
          rm' = [regmap_read(rm, reg, busok, hw)
                   EXCEPT !.written = IF rm.last.op = "write" THEN rm.written ELSE <<>>]
    /\ RegmapFrame

NextRegmap == RegWrite \/ RegRead

SpecRegmap == InitQuiet /\ [][NextRegmap]_vars

\* C22: a value written to a non-volatile readable register is what the
\* next read of that register returns, with no bus transfer; a read of a
\* volatile register (the interrupt status register) makes a bus transfer
\* even directly after a write to it.
C22_RoundTrip ==
    (rm.last.op = "read" /\ rm.written # <<>> /\ rm.written[1].reg = rm.last.reg
        /\ cs4245_readable_register(rm.last.reg))
    => IF rm.last.reg = CS4245_INT_STATUS
       THEN rm.last.bus = 1
       ELSE rm.last.ret = 0 /\ rm.last.val = rm.written[1].val /\ rm.last.bus = 0

C22_Witness ==
    /\ rm.last.op = "read" /\ rm.written # <<>>
    /\ rm.written[1].reg = CS4245_CHIP_ID /\ rm.written[1].val = 1
    /\ rm.last.reg = CS4245_CHIP_ID /\ rm.last.val = 1 /\ rm.last.bus = 0

\* C23: when a bus transfer made by set_fmt, the mute operation, hw_params
\* or the register setup of the probe fails, the operation returns an error.
C23_BusFailureReturned ==
    (bus_failed /\ dai.op \in {"set_fmt", "mute", "hw_params", "probe"}) => dai.ret < 0

\* C24: if the acquisition of a pin that init or a setter drives failed,
\* initialized is false after init, and no pin write is ever issued to a
\* pin that was not acquired.
C24_AbsentPinsNeverWritten ==
    attached # "none"
    => /\ (PinsOf(IF attached = "duo" THEN DuoAcquire ELSE DuoXAcquire) \ acquired # {})
          => ~initialized
       /\ \A i \in 1..Len(log) : log[i].pin \in acquired

\* the masks an operation names, per register
NamedMask(op, reg) ==
    IF op = "set_fmt" /\ reg = CS4245_ADC_CTL THEN CS4245_ADC_MASTER
    ELSE IF op = "mute" /\ reg = CS4245_DAC_CTL THEN CS4245_DAC_CTL_MUTE
    ELSE IF op = "mute" /\ reg = CS4245_ADC_CTL THEN CS4245_ADC_CTL_MUTE
    ELSE IF op = "hw_params" /\ reg = CS4245_DAC_CTL THEN CS4245_DAC_CTL_DIF
    ELSE IF op = "hw_params" /\ reg = CS4245_ADC_CTL THEN CS4245_ADC_FM + CS4245_ADC_DIF
    ELSE IF op = "hw_params" /\ reg = CS4245_MCLK_FREQ THEN CS4245_MCLK_FREQ_MASK
    ELSE 0

MasterBit(r) == BitAnd(r[CS4245_ADC_CTL], CS4245_ADC_MASTER)

DacMuteBit(r) == BitAnd(r[CS4245_DAC_CTL], CS4245_DAC_CTL_MUTE)

ClockBits(r) ==
    <<BitAnd(r[CS4245_ADC_CTL], CS4245_ADC_FM),
      BitAnd(r[CS4245_MCLK_FREQ], CS4245_MCLK_FREQ_MASK)>>

\* what a successful hw_params call resolves for the stored clock and its rate
ResolvedClockBits(s, rate) ==
    <<clk_map_table[cs4265_get_clk_index(s, rate) + 1].fm_mode * 64,
      clk_map_table[cs4265_get_clk_index(s, rate) + 1].mclkdiv * 16>>

\* C25: over set_fmt, mute and hw_params calls the master bit is what the
\* last successful set_fmt selected, the DAC mute bit what the last mute call
\* selected, the FM and divider bits what the last successful hw_params
\* resolved, and no call changes a bit outside the masks it names. Stated on
\* steps: each of these bits changes only in such a call, has the selected
\* value after it, and the other bits of every register are kept.
C25_MaskedUpdates ==
    [][/\ MasterBit(regs') # MasterBit(regs) => (dai'.op = "set_fmt" /\ dai'.ret = 0)
       /\ (dai'.op = "set_fmt" /\ dai'.ret = 0 /\ dai' # dai)
          => MasterBit(regs') =
                (IF BitAnd(dai'.a1, SND_SOC_DAIFMT_MASTER_MASK) = SND_SOC_DAIFMT_CBM_CFM
                 THEN CS4245_ADC_MASTER ELSE 0)
       /\ DacMuteBit(regs') # DacMuteBit(regs) => dai'.op = "mute"
       /\ (dai'.op = "mute" /\ dai' # dai)
          => DacMuteBit(regs') = dai'.a1 * CS4245_DAC_CTL_MUTE
       /\ ClockBits(regs') # ClockBits(regs) => (dai'.op = "hw_params" /\ dai'.ret = 0)
       /\ (dai'.op = "hw_params" /\ dai'.ret = 0 /\ dai' # dai)
          => ClockBits(regs') = ResolvedClockBits(sysclk, dai'.a2)
       /\ \A reg \in DOMAIN regs :
             regs'[reg] - BitAnd(regs'[reg], NamedMask(dai'.op, reg))
                = regs[reg] - BitAnd(regs[reg], NamedMask(dai'.op, reg))
      ]_vars

\* C30: for every stored format (0 included), stored sysclk, stream, rate
\* and width, a hw_params call that returns an error changes no register bit.
C30_HwParamsAllOrNothing ==
    [][(dai'.op = "hw_params" /\ dai'.ret < 0) => regs' = regs]_vars

\* C27: once init has set the drive lines low, with explicit calls serialized
\* with each other and the handler firing at any point, exp_enable1 and
\* exp_enable2 are never both high, at any state between two pin writes.
C27_NeverBothAsserted ==
    (attached = "duox" /\ initialized)
    => ~(level["exp_enable1"] = 1 /\ level["exp_enable2"] = 1)

\* a side switch from tip to ring has released exp_enable2 and asserted
\* exp_enable1 while the handler is between its own writes
C27_Witness ==
    /\ attached = "duox" /\ initialized
    /\ pcT = "exp_store" /\ modeT = ToInt(EXP_PEDAL_SIGNAL_ON_RING)
    /\ level["exp_enable1"] = 1 /\ level["exp_enable2"] = 0
    /\ pcI = "irq_w1"

\* C28: on an initialized arbiter, from CvMode, ExpPedalMode/tip and
\* ExpPedalMode/ring alike, one run of the interrupt handler leaves
\* cv_exp_pedal_mode false and both drive lines low, a second consecutive run
\* changes nothing, and no run changes exp_pedal_mode, headphone_cv_mode, a
\* volume, gain or bypass mirror, or any pin other than the two drive lines.
C28_IrqResetIdempotent ==
    [][(last'.op = "exp_flag_irq_handler" /\ initialized)
       => /\ ~cv_exp_pedal_mode'
          /\ level'["exp_enable1"] = 0 /\ level'["exp_enable2"] = 0
          /\ UNCHANGED <<exp_pedal_mode, headphone_cv_mode, ampVars, gainVars, bypassVars, amp>>
          /\ \A pin \in DOMAIN level :
                pin \notin {"exp_enable1", "exp_enable2"} => level'[pin] = level[pin]
          /\ last.op = "exp_flag_irq_handler" => UNCHANGED <<hwVars, mirrorVars>>
      ]_vars

\* the handler has run in ExpPedalMode/ring
C28_Witness ==
    /\ last.op = "exp_flag_irq_handler" /\ last.old = 1
    /\ initialized /\ irqFlag1 > 0 /\ irqFlag2 > 0
    /\ exp_pedal_mode = EXP_PEDAL_SIGNAL_ON_RING
    /\ ~cv_exp_pedal_mode
    /\ level["exp_enable1"] = 0 /\ level["exp_enable2"] = 0

\* C29: when gpiod_to_irq or request_irq fails for either sense line,
\* moddevices_init still returns 0 and leaves both irqFlag1 and irqFlag2
\* non-positive, and from then on cv_exp_pedal_mode changes only through an
\* explicit set_cv_exp_pedal_mode call: no interrupt-driven transition
\* occurs, also when the first line was registered and only the second failed.
C29_IrqFailureLogicalOnly ==
    [][/\ (last'.op = "moddevices_init" /\ initialized')
          => /\ last'.ret = 0
             /\ \/ irqFlag1' > 0 /\ irqFlag2' > 0
                \/ irqFlag1' <= 0 /\ irqFlag2' <= 0
       /\ (attached = "duox" /\ initialized /\ (irqFlag1 <= 0 \/ irqFlag2 <= 0)
           /\ cv_exp_pedal_mode' # cv_exp_pedal_mode)
          => last'.op = "cv_exp_pedal_mode_put"
      ]_vars

\* C31: for every fmt argument, a set_fmt call that returns an error changes
\* neither the stored format nor any register bit, the ADC_CTL master bit
\* included.
C31_SetFmtAllOrNothing ==
    [][(dai'.op = "set_fmt" /\ dai'.ret < 0) => (regs' = regs /\ format' = format)]_vars

\* C32: with the stored format right-justified, hw_params for a capture
\* stream returns an error and writes no register, whatever sysclk and rate
\* are; for a playback stream it is not rejected for that reason: it
\* succeeds exactly when the clock resolves.
C32_CaptureRightJustifiedRejected ==
    (dai.op = "hw_params" /\ dai.format0 = SND_SOC_DAIFMT_RIGHT_J)
    => IF dai.a1 = SNDRV_PCM_STREAM_CAPTURE
       THEN dai.ret = -EINVAL /\ dai.writes = <<>>
       ELSE (dai.ret = 0) <=> (cs4265_get_clk_index(dai.sysclk0, dai.a2) >= 0)

\* a capture stream rejected although its clock resolves
C32_Witness ==
    /\ dai.op = "hw_params" /\ dai.format0 = SND_SOC_DAIFMT_RIGHT_J
    /\ dai.a1 = SNDRV_PCM_STREAM_CAPTURE
    /\ cs4265_get_clk_index(dai.sysclk0, dai.a2) >= 0
    /\ dai.ret = -EINVAL

\* C33: for every (sysclk, rate) that is a row of clk_map_table and every
\* valid stored format, after hw_params returns 0 bits 7:6 of ADC_CTL are
\* that row's fm_mode and bits 6:4 of MCLK_FREQ that row's mclkdiv, and the
\* call has changed neither sysclk nor format.
C33_ClockProgrammed ==
    (/\ dai.op = "hw_params" /\ dai.ret = 0
     /\ dai.format0 \in {SND_SOC_DAIFMT_I2S, SND_SOC_DAIFMT_RIGHT_J, SND_SOC_DAIFMT_LEFT_J})
    => /\ \A i \in 1..Len(clk_map_table) :
             (clk_map_table[i].mclk = dai.sysclk0 /\ clk_map_table[i].rate = dai.a2)
             => /\ BitAnd(regs[CS4245_ADC_CTL], CS4245_ADC_FM) \div 64
                      = clk_map_table[i].fm_mode
                /\ BitAnd(regs[CS4245_MCLK_FREQ], CS4245_MCLK_FREQ_MASK) \div 16
                      = clk_map_table[i].mclkdiv
       /\ sysclk = dai.sysclk0
       /\ format = dai.format0

\* the row (24576000, 96000) programmed: fm_mode 1, mclkdiv 2
C33_Witness ==
    /\ dai.op = "hw_params" /\ dai.ret = 0
    /\ dai.format0 = SND_SOC_DAIFMT_I2S
    /\ dai.sysclk0 = 24576000 /\ dai.a2 = 96000
    /\ BitAnd(regs[CS4245_ADC_CTL], CS4245_ADC_FM) = 64
    /\ BitAnd(regs[CS4245_MCLK_FREQ], CS4245_MCLK_FREQ_MASK) = 32

ChannelState(channel) ==
    IF channel = CHANNEL_LEFT
    THEN <<input_left_gain_stage, left_true_bypass, level["gain_stage_left1"],
           level["gain_stage_left2"], level["true_bypass_left"]>>
    ELSE <<input_right_gain_stage, right_true_bypass, level["gain_stage_right1"],
           level["gain_stage_right2"], level["true_bypass_right"]>>

\* C35: set_gain_stage and set_true_bypass on one channel leave the other
\* channel's mirrors and pins, the volume mirror, the amplifier and its pins,
\* the mode mirrors and the mode and drive lines as they were; with a
\* channel argument that is neither left nor right they change nothing.
C35_ChannelsIndependent ==
    [][(last'.op \in {"set_gain_stage", "set_true_bypass"})
       => /\ UNCHANGED <<headphone_volume, amp, modeVars>>
          /\ \A pin \in AmpPins \cup ModePins : level'[pin] = level[pin]
          /\ last'.arg = CHANNEL_LEFT
             => ChannelState(CHANNEL_RIGHT)' = ChannelState(CHANNEL_RIGHT)
          /\ last'.arg = CHANNEL_RIGHT
             => ChannelState(CHANNEL_LEFT)' = ChannelState(CHANNEL_LEFT)
          /\ last'.arg \notin {CHANNEL_LEFT, CHANNEL_RIGHT}
             => UNCHANGED <<hwVars, mirrorVars>>
      ]_vars

\* the left relay switched to process while the right one stays in bypass
\* and a drive line is asserted
C35_Witness ==
    /\ last.op = "set_true_bypass" /\ last.arg = CHANNEL_LEFT /\ last.old = 0
    /\ initialized
    /\ level["true_bypass_left"] = GPIO_PROCESS /\ ~left_true_bypass
    /\ level["true_bypass_right"] = GPIO_BYPASS /\ right_true_bypass
    /\ level["exp_enable1"] + level["exp_enable2"] = 1

\* C36: with initialized = true, after init and after any sequence of
\* headphone_cv_mode_put calls the headphone_cv_mode pin has the level of the
\* headphone_cv_mode mirror (1 for CV mode, 0 for headphone), and a put of a
\* value other than 0 or 1 changes neither the pin nor the mirror.
C36_CvModeLineNotInverted ==
    /\ (attached = "duox" /\ initialized /\ "headphone_cv_mode" \in acquired)
       => level["headphone_cv_mode"] = ToInt(headphone_cv_mode)
    /\ (last.op = "headphone_cv_mode_put" /\ last.arg \notin {0, 1})
       => /\ ToInt(headphone_cv_mode) = last.old
          /\ log = <<>>

\* CV mode selected on an initialized board
C36_Witness ==
    /\ attached = "duox" /\ initialized
    /\ last.op = "headphone_cv_mode_put" /\ last.arg = 1 /\ last.old = 0
    /\ headphone_cv_mode
    /\ level["headphone_cv_mode"] = 1

\* C37: the probe registers the component and runs the board init only if
\* the read of the identifier register succeeded and the high nibble of the
\* value read is the expected identifier; if the read fails or the nibble
\* differs the probe returns an error, writes no register and touches no pin.
C37_ProbeOnlyOnMatch ==
    (/\ dai.op = "probe"
     /\ (dai.a1 = 0 \/ BitAnd(dai.a2, CS4245_CHIP_ID_MASK) # CS4245_CHIP_ID_VAL))
    => /\ dai.ret < 0
       /\ dai.writes = <<>>
       /\ attached = "none"

====
